---- MODULE Spec2Model ----
(***************************************************************************)
(* Verification model of the WhatsApp / MobilityOne worker.                *)
(*                                                                         *)
(* Part 1  the inbound work queue: Redis stream + consumer group, the      *)
(*         per-entry transaction of the worker, stalled-entry recovery,    *)
(*         the dead-letter list and its auto-heal (worker.py, queue.py).   *)
(* Part 2  the leadership lock of the tool registry (tool_registry.py).    *)
(* Part 3  the registry snapshot files (tool_registry.py).                 *)
(*                                                                         *)
(* Each part has its own specification over the shared variable tuple; the *)
(* variables of the other parts stay at their initial value.               *)
(***************************************************************************)
EXTENDS Integers, Sequences, FiniteSets, TLC

VARIABLES
    \* ---- Redis: inbound stream and consumer group "workers_group"
    stream,         \* entries present in STREAM_INBOUND: [id, p]
    nextId,         \* next stream id XADD hands out
    nextMsg,        \* next message_id the webhook hands to enqueue_inbound
    groupExists,    \* the consumer group has been created
    lastDelivered,  \* the group's last-delivered-id cursor
    pel,            \* pending entries list: [id, owner, idle]
    rate,           \* rate:{sender} counters (expire after 60 s)
    dlq,            \* list dlq:inbound
    permanent,      \* list dlq:permanent
    \* ---- worker processes
    wstate,         \* "new" | "running" | "dead"
    inflight,       \* running _process_single_message_transaction coroutines
    heal,           \* position inside auto_heal_dlq: [left, cur] (history:
                    \* popped, the entries this invocation has removed)
    faults,         \* Redis calls that have raised so far
    \* ---- history (observation only, never read by an action's guard)
    outcomes,       \* <<id, what>>: what a transaction did for stream entry id
    hist,           \* per message_id: failed transactions, auto-heal routings,
                    \* transactions that did not fail
    ackLog,         \* ids that were XACKed
    \* ---- Redis: the leadership lock of the tool registry, and its processes
    now,            \* wall clock, seconds
    lock,           \* key LOCK_KEY: NoLock or [owner, expires]
    lpc,            \* position of each process inside load_swagger
    is_leader,      \* self._is_leader
    pending,        \* how _leader_load ended: "none" | "true" | "false" | "raised"
    ret,            \* what load_swagger returned: "none" | "true" | "false"
    since,          \* when the follower started to wait
    cache,          \* a loadable snapshot is on disk
    \* ---- history of the lock (observation only)
    acqLog,         \* successful SET NX calls in order: [p, at]
    killedAs,       \* per killed leader: [n, at], acquisitions so far and its own
    \* ---- the registries and the snapshot files they share
    tools_map,      \* self.tools_map of each registry: op_id -> descriptor
    embeddings_map, \* self.embeddings_map of each registry: op_id -> vector
    live,           \* CACHE_FILE
    backup,         \* BACKUP_FILE
    tmp,            \* CACHE_FILE.with_suffix('.tmp')
    spc,            \* position of each registry inside _write_cache_atomic
    readDoc,        \* history: the document the last _load_cache applied, or
                    \* NoSnapshot when it returned False
    \* ---- semantic search of one registry
    catalog,        \* tools_map.items() in dict order, each with
                    \* embeddings_map.get(op_id): [op, vec]
    is_ready,       \* self.is_ready
    query_vec,      \* the embedding of the last query
    limit,          \* top_k of the last query, -1 before the first one
    found,          \* what the last find_relevant_tools returned
    \* ---- Redis: outbound list and scheduled retries; the workers' pollers
    outbound,       \* list QUEUE_OUTBOUND: payloads [cid, attempts]
    schedule,       \* sorted set QUEUE_SCHEDULE: [m, score] (history: rt, the
                    \* wall-clock time of the ZADD, and by, the worker)
    rtime,          \* wall-clock time, seconds
    skew,           \* per worker: its event loop's clock minus wall-clock time
    opc,            \* position inside _process_retries: "new" | "idle" |
                    \* "picked" | "removed"
    task,           \* tasks[0] of the poller
    issued,         \* correlation ids enqueue has generated
    \* ---- history of the outbound path (observation only)
    promoCount,     \* per member: how often it was re-enqueued
    schedCount,     \* per correlation id: how often it was scheduled
    lostRace,       \* <<worker, member>>: ZREM returned 0
    dropped,        \* payloads schedule_retry gave up on
    sentLog,        \* payloads _send_infobip posted without an exception
    \* ---- the gateway, openapi_bridge.py
    token,          \* self._token (0: None)
    token_fresh,    \* utcnow() < self._token_expires_at - 60 s
    token_cache,    \* Redis key TOKEN_CACHE_KEY (0: absent)
    minted,         \* tokens the auth server has issued
    gpc,            \* "idle" | "request" | "done"
    headers,        \* the token in headers["Authorization"]
    attempt,        \* loop variable of _execute_request
    result,         \* what execute_tool returned
    \* ---- history of the current gateway call (observation only)
    calls,          \* execute_tool calls started
    statuses,       \* answers to the requests of the call (0: no answer)
    refreshes,      \* _invalidate_token calls of the call
    streak,         \* history: calls in a row that the remote API failed, no time having passed since
    \* ---- several gateway processes sharing the Redis token key
    tpc,            \* per process: position inside _get_valid_token
    self_token,     \* per process: self._token (0: None)
    fetchers,       \* history: who fetched a token since the last invalidation
    \* ---- the poll loop of _follower_wait, pass by pass
    polls,          \* per process: passes of the loop completed
    \* ---- _process_spec over one document
    ipc,            \* "idle" | "parsing"
    spec_paths,     \* the operations of the document, in order
    pidx,           \* the operation _process_spec is at
    built,          \* tools_map of the ingesting registry
    stored_first,   \* history: per op_id, what this call stored first
    \* ---- build cycles of the registries of part 3
    bpc,            \* per registry: position inside its build cycle
    holder,         \* the registry whose LOCK_KEY is set, or "none"
    cycles,         \* per registry: cycles started
    \* ---- history of the build cycles (observation only)
    had,            \* per registry: operations that have had a vector
    again,          \* <<registry, operation>> sent to the backend again
    before,         \* per registry: what a search could return at cycle start
    last_search,    \* per registry: what the last search in the cycle could return
    died,           \* registries that died inside load_swagger
    produced,       \* per registry: the operations of the document fetched in its cycle
    \* ---- the main loop of one worker
    mpc,            \* "running" | "stopped" | "exited" | "crashed"
    running,        \* self.running
    consecutive_errors,   \* self.consecutive_errors
    loops,          \* passes of the while loop made
    failed_run,     \* history: passes in a row in which a Redis call or task failed
    \* ---- one run of generate_embeddings
    epc,            \* "idle" | "loop" | "done" | "crashed"
    leading,        \* self._is_leader as generate_embeddings reads it
    todo,           \* operations of `missing` not yet reached
    generated,      \* the counter `generated`
    persisted       \* vectors of this run that the snapshot holds

qvars == <<stream, nextId, nextMsg, groupExists, lastDelivered, pel, rate, dlq,
           permanent, wstate, inflight, heal, faults, outcomes,
           hist, ackLog>>

lvars == <<now, lock, lpc, is_leader, pending, ret, since, cache, acqLog, killedAs>>

svars == <<tools_map, embeddings_map, live, backup, tmp, spc, readDoc>>

fvars == <<catalog, is_ready, query_vec, limit, found>>

ovars == <<outbound, schedule, rtime, skew, opc, task, issued,
           promoCount, schedCount, lostRace, dropped, sentLog>>

gvars == <<token, token_fresh, token_cache, minted, gpc, headers, attempt, result,
           calls, statuses, refreshes, streak>>

tvars == <<tpc, self_token, fetchers>>

wvars == <<polls>>

ivars == <<ipc, spec_paths, pidx, built, stored_first>>

bvars == <<bpc, holder, cycles, had, again, before, last_search, died, produced>>

mvars == <<mpc, running, consecutive_errors, loops, failed_run>>

evars == <<epc, leading, todo, generated, persisted>>

vars == <<qvars, lvars, svars, fvars, ovars, gvars, tvars, wvars, ivars, bvars, mvars, evars>>

\* what a step of one part leaves alone
restQ == <<lvars, svars, fvars, ovars, gvars, tvars, wvars, ivars, bvars, mvars, evars>>
restL == <<qvars, svars, fvars, ovars, gvars, tvars, wvars, ivars, bvars, mvars, evars>>
restS == <<qvars, lvars, fvars, ovars, gvars, tvars, wvars, ivars, bvars, mvars, evars>>
restF == <<qvars, lvars, svars, ovars, gvars, tvars, wvars, ivars, bvars, mvars, evars>>
restO == <<qvars, lvars, svars, fvars, gvars, tvars, wvars, ivars, bvars, mvars, evars>>
restG == <<qvars, lvars, svars, fvars, ovars, tvars, wvars, ivars, bvars, mvars, evars>>
\* the processes of part 7 share the Redis key and the auth server
restT == <<qvars, lvars, svars, fvars, ovars, token, token_fresh, gpc, headers,
           attempt, result, calls, statuses, refreshes, streak, wvars, ivars, bvars, mvars, evars>>
\* the poll loop works on the lock and the snapshot of part 2
restW == <<qvars, svars, fvars, ovars, gvars, tvars, ivars, bvars, mvars, evars>>
\* a build cycle works on the registries and files of part 3
restB == <<qvars, lvars, fvars, ovars, gvars, tvars, wvars, ivars, mvars, evars>>
restM == <<qvars, lvars, svars, fvars, ovars, gvars, tvars, wvars, ivars, bvars, evars>>
restI == <<qvars, lvars, svars, fvars, ovars, gvars, tvars, wvars, bvars, mvars, evars>>
restE == <<qvars, lvars, svars, fvars, ovars, gvars, tvars, wvars, ivars, bvars, mvars>>

(***************************************************************************)
(* Bounds of the model                                                     *)
(***************************************************************************)
MaxMsgs == 1        \* webhook messages enqueued
MaxIds  == 4        \* stream ids handed out
MaxFaults == 1      \* Redis calls that raise
MaxTicks == 4       \* clock steps of the leadership lock
MaxTools == 3       \* descriptors in the searched registry
MaxK == 2           \* top_k of a query
MaxClock == 16      \* clock steps of the retry schedule
MaxDlq == 11        \* entries that reach the dead-letter list
MaxVaried == 2      \* of these, the first ones of any kind
MaxCalls == 3       \* execute_tool calls of the gateway
MaxTokens == 3      \* tokens the auth server issues
MaxOps == 3         \* operations in an ingested document
MaxCycles == 2      \* build cycles of a registry
MaxLoops == 12      \* passes of the worker's main loop
MaxCached == 2      \* tools in a snapshot file that is loaded
MaxMissing == 25    \* operations without a vector when generate_embeddings starts

Workers == {"w1", "w2"}
Senders == {"s1"}
Texts   == {"text", "blank"}     \* "blank": text.strip() is empty
Procs   == {"p1", "p2", "p3"}    \* processes that call load_swagger
Regs    == {"r1", "r2"}          \* registries (one per process) sharing the files
OpOrder == <<"a">>               \* operation ids, in the order a dict lists them
Descs   == {"d1", "d2"}          \* descriptor contents
Vecs    == {"v1"}                \* embedding vectors
\* searched operation ids, and embedding vectors with components in tenths
SearchOps == {"get_vehicle", "get_weather", "get_person", "post_Batch"}
ToolVecs  == {<<10, 0>>, <<0, 10>>, <<3, 4>>, <<0, 0>>}
QueryVecs == {<<9, 1>>, <<10, 0>>}
Cids      == {"c1"}              \* correlation ids of outbound messages
\* what a dead-letter entry can be: a payload with that retry count, or
\* bytes that do not parse
DlqKinds  == {"0", "2", "3", "corrupt"}
\* what a request of the gateway ends with: an HTTP status, or 0 when
\* client.get/post/... raised (timeout, connection error)
Answers   == {0, 200, 400, 401, 403, 404, 500}
Gateways  == {"g1", "g2"}        \* processes that own an OpenAPIGateway

(***************************************************************************)
(* Program constants                                                       *)
(***************************************************************************)
READ_COUNT      == 10       \* xreadgroup count
CLAIM_COUNT     == 10       \* xautoclaim count
MIN_IDLE_TIME   == 300000   \* xautoclaim min_idle_time, milliseconds
RATE_LIMIT      == 20       \* count <= 20
RATE_WINDOW     == 60       \* pipe.expire(key, 60), seconds
MAX_RETRIES     == 3        \* retry_count >= 3 goes to permanent storage
HEAL_BATCH      == 10       \* for _ in range(10)
LOCK_TIMEOUT    == 900      \* SET LOCK_KEY ... EX 900, seconds
FOLLOWER_POLLS  == 120      \* for attempt in range(120)
POLL_SLEEP      == 5        \* asyncio.sleep(5), seconds
MAX_ATTEMPTS    == 5        \* if attempts >= 5: give up
max_retries     == 2        \* _execute_request: max_retries = 2
EMBEDDING_BATCH_SIZE == 5     \* EMBEDDING_BATCH_SIZE = 5
CHECKPOINT_EVERY == 20        \* generated % 20 == 0
panic_threshold == 5        \* self.panic_threshold = 5

(***************************************************************************)
(* Helpers                                                                 *)
(***************************************************************************)
Min(S) == CHOOSE x \in S : \A y \in S : x <= y

RECURSIVE LowestIds(_, _)
\* the first k ids of S in stream order (COUNT k of a stream read)
LowestIds(S, k) ==
    IF k = 0 \/ S = {} THEN {}
    ELSE LET m == Min(S) IN {m} \cup LowestIds(S \ {m}, k - 1)

Digits == <<"0", "1", "2", "3", "4", "5", "6", "7", "8", "9">>
\* str(n) and int(s) on the decimal strings stream fields are stored as
str(n) == Digits[n + 1]
int(s) == CHOOSE n \in 0..9 : Digits[n + 1] = s

NoEntry == [none |-> TRUE]
None == [null |-> TRUE]           \* Python's None
NoLock == [none |-> TRUE]
StreamIds == {e.id : e \in stream}
PelIds == {x.id : x \in pel}
EntryOf(i) == CHOOSE e \in stream : e.id = i
TasksOf(w) == {t \in inflight : t.w = w}
\* a transaction coroutine; src says how the entry reached the worker: by
\* XREADGROUP, or by XAUTOCLAIM from owner `from` who held it idle for `idle`
Task(w, i, p, src) == [w |-> w, id |-> i, p |-> p, src |-> src, pc |-> "start", orphan |-> FALSE]
ReadSrc(w) == [kind |-> "read", from |-> w, idle |-> 0, acked |-> FALSE]
IsClaim(t) == t.src.kind = "claim"
Moved(t, pc) == [t EXCEPT !.pc = pc]

(***************************************************************************)
(* Part 1: the inbound work queue                                          *)
(***************************************************************************)
InitQueue ==
    /\ stream = {}
    /\ nextId = 1
    /\ nextMsg = 1
    /\ groupExists = FALSE
    /\ lastDelivered = 0
    /\ pel = {}
    /\ rate \in [Senders -> {0, RATE_LIMIT}]
    /\ dlq = <<>>
    /\ permanent = <<>>
    /\ wstate = [w \in Workers |-> "new"]
    /\ inflight = {}
    /\ heal = [w \in Workers |-> [left |-> 0, cur |-> NoEntry, popped |-> 0]]
    /\ faults = 0
    /\ outcomes = {}
    /\ hist = [m \in 1..MaxMsgs |-> [fails |-> 0, heals |-> 0, passes |-> 0]]
    /\ ackLog = {}

\* worker.py start(): xgroup_create(STREAM_INBOUND, "workers_group", id="$",
\* mkstream=True); BUSYGROUP is ignored when the group already exists.
StartWorker(w) ==
    /\ wstate[w] = "new"
    /\ wstate' = [wstate EXCEPT ![w] = "running"]
    /\ groupExists' = TRUE
    /\ lastDelivered' = IF groupExists THEN lastDelivered ELSE nextId - 1
    /\ UNCHANGED <<stream, nextId, nextMsg, pel, rate, dlq, permanent,
                   inflight, heal, outcomes, ackLog, faults, hist>>

\* queue.py enqueue_inbound: XADD with retry_count "0"
enqueue_inbound(sender, text) ==
    /\ nextMsg <= MaxMsgs
    /\ nextId <= MaxIds
    /\ stream' = stream \cup
          {[id |-> nextId,
            p |-> [sender |-> sender, text |-> text, message_id |-> nextMsg,
                   retry_count |-> "0"]]}
    /\ nextId' = nextId + 1
    /\ nextMsg' = nextMsg + 1
    /\ UNCHANGED <<groupExists, lastDelivered, pel, rate, dlq, permanent, wstate, inflight, heal, outcomes, ackLog, faults, hist>>

\* worker.py _process_inbound_batch: XREADGROUP ... ">" count=10; one
\* transaction coroutine per delivered entry.
ProcessInboundBatch(w) ==
    /\ wstate[w] = "running"
    /\ \A t \in TasksOf(w) : t.orphan \/ IsClaim(t)
    /\ LET fresh == {i \in StreamIds : i > lastDelivered}
           got == LowestIds(fresh, READ_COUNT)
       IN /\ pel' = pel \cup {[id |-> i, owner |-> w, idle |-> 0] : i \in got}
          /\ lastDelivered' = IF got = {} THEN lastDelivered
                              ELSE CHOOSE i \in got : \A j \in got : j <= i
          /\ inflight' = inflight \cup {Task(w, i, EntryOf(i).p, ReadSrc(w)) : i \in got}
    /\ UNCHANGED <<stream, nextId, nextMsg, groupExists, rate, dlq, permanent,
                   wstate, heal, outcomes, ackLog, faults, hist>>

\* (mutant) the scan ignores the idle time
ClaimableAny(minIdle) == pel

\* XAUTOCLAIM: which pending entries a scan with this min_idle_time takes
Claimable(minIdle) == {x \in pel : x.idle >= minIdle}

\* worker.py _recover_stalled_messages: XAUTOCLAIM min_idle_time=300000,
\* start_id "0-0", count=10; every claimed entry runs the same transaction.
RecoverStalledMessages(w) ==
    /\ wstate[w] = "running"
    /\ \A t \in TasksOf(w) : t.orphan
    /\ LET cand == {x.id : x \in Claimable(MIN_IDLE_TIME)}
           got == LowestIds(cand, CLAIM_COUNT)
           present == got \cap StreamIds
       IN /\ pel' = {x \in pel : x.id \notin got}
                      \cup {[id |-> i, owner |-> w, idle |-> 0] : i \in present}
          /\ inflight' = inflight \cup
                {Task(w, x.id, EntryOf(x.id).p,
                      [kind |-> "claim", from |-> x.owner, idle |-> x.idle,
                       acked |-> x.id \in ackLog])
                   : x \in {y \in pel : y.id \in present}}
    /\ UNCHANGED <<stream, nextId, nextMsg, groupExists, lastDelivered, rate, dlq,
                   permanent, wstate, heal, outcomes, ackLog, faults, hist>>

(***************************************************************************)
(* worker.py _process_single_message_transaction(msg_id, payload), one     *)
(* action per await.  pc of a coroutine:                                   *)
(*   start    -> the sender/text test and _check_rate_limit                *)
(*   allowed  -> _handle_business_logic                                    *)
(*   pre_ack  -> xack (line 275)      acked   -> xdel (line 276)           *)
(*   failed   -> store_inbound_dlq    f_stored -> xack (288)               *)
(*   f_acked  -> xdel (289)                                                *)
(***************************************************************************)
Note(i, what) == outcomes \cup {<<i, what>>}
Passed(t) == [hist EXCEPT ![t.p.message_id].passes = @ + 1]

\* redis.xack(STREAM_INBOUND, "workers_group", msg_id): drops the entry from
\* the group's pending list, whoever owns it
XackPel(i) == {x \in pel : x.id # i}

\* redis.xdel(STREAM_INBOUND, msg_id)
XdelStream(i) == {e \in stream : e.id # i}

\* (mutant) one entry more than the limit passes
RateAllowedOneMore(count) == count <= RATE_LIMIT + 1

\* _check_rate_limit: INCR rate:{sender}, EXPIRE 60; allowed iff count <= 20
RateAllowed(count) == count <= RATE_LIMIT

\* lines 263-273 up to the rate limit decision
CheckAndLimit(t) ==
    /\ t \in inflight /\ t.pc = "start"
    /\ IF t.p.text = "blank"
       THEN /\ inflight' = (inflight \ {t}) \cup {Moved(t, "pre_ack")}
            /\ outcomes' = Note(t.id, "blank")
            /\ hist' = Passed(t)
            /\ rate' = rate
       ELSE LET count == rate[t.p.sender] + 1 IN
            /\ rate' = [rate EXCEPT ![t.p.sender] = count]
            /\ IF RateAllowed(count)
               THEN /\ inflight' = (inflight \ {t}) \cup {Moved(t, "allowed")}
                    /\ outcomes' = outcomes
                    /\ hist' = hist
               ELSE /\ inflight' = (inflight \ {t}) \cup {Moved(t, "pre_ack")}
                    /\ outcomes' = Note(t.id, "limited")
                    /\ hist' = Passed(t)
    /\ UNCHANGED <<stream, nextId, nextMsg, groupExists, lastDelivered, pel, dlq,
                   permanent, wstate, heal, ackLog, faults>>

\* (mutant) the exception of the business logic is swallowed: the entry is
\* acknowledged as if it had been processed
HandleBusinessLogicSwallows(t, thrown) ==
    /\ t \in inflight /\ t.pc = "allowed"
    /\ inflight' = (inflight \ {t}) \cup {Moved(t, "pre_ack")}
    /\ outcomes' = IF thrown THEN outcomes ELSE Note(t.id, "ok")
    /\ hist' = IF thrown THEN hist ELSE Passed(t)
    /\ UNCHANGED <<stream, nextId, nextMsg, groupExists, lastDelivered, pel, rate, dlq,
                   permanent, wstate, heal, ackLog, faults>>

\* lines 268-270: _handle_business_logic returns (ok) or raises (thrown)
HandleBusinessLogic(t, thrown) ==
    /\ t \in inflight /\ t.pc = "allowed"
    /\ inflight' = (inflight \ {t}) \cup {Moved(t, IF thrown THEN "failed" ELSE "pre_ack")}
    /\ outcomes' = IF thrown THEN outcomes ELSE Note(t.id, "ok")
    /\ hist' = IF thrown THEN hist ELSE Passed(t)
    /\ UNCHANGED <<stream, nextId, nextMsg, groupExists, lastDelivered, pel, rate, dlq,
                   permanent, wstate, heal, ackLog, faults>>

\* line 275
AckSuccess(t) ==
    /\ t \in inflight /\ t.pc = "pre_ack"
    /\ pel' = XackPel(t.id)
    /\ ackLog' = ackLog \cup {t.id}
    /\ inflight' = (inflight \ {t}) \cup {Moved(t, "acked")}
    /\ UNCHANGED <<stream, nextId, nextMsg, groupExists, lastDelivered, rate, dlq,
                   permanent, wstate, heal, outcomes, faults, hist>>

\* line 276
DelSuccess(t) ==
    /\ t \in inflight /\ t.pc = "acked"
    /\ stream' = XdelStream(t.id)
    /\ inflight' = inflight \ {t}
    /\ UNCHANGED <<nextId, nextMsg, groupExists, lastDelivered, pel, rate, dlq,
                   permanent, wstate, heal, outcomes, ackLog, faults, hist>>

\* (mutant) the dead-letter entry is built but never pushed
store_inbound_dlq_dropped(payload) == dlq

\* queue.py store_inbound_dlq: RPUSH dlq:inbound {original_payload, error, ..}
store_inbound_dlq(payload) == Append(dlq, [original_payload |-> payload, error |-> "error"])

\* line 286, the except branch
StoreDeadLetter(t) ==
    /\ t \in inflight /\ t.pc = "failed"
    /\ dlq' = store_inbound_dlq(t.p)
    /\ outcomes' = IF Len(dlq') = Len(dlq) + 1 /\ dlq'[Len(dlq')].original_payload = t.p
                   THEN Note(t.id, "dlq") ELSE outcomes
    /\ hist' = [hist EXCEPT ![t.p.message_id].fails = @ + 1]
    /\ inflight' = (inflight \ {t}) \cup {Moved(t, "f_stored")}
    /\ UNCHANGED <<stream, nextId, nextMsg, groupExists, lastDelivered, pel, rate,
                   permanent, wstate, heal, ackLog, faults>>

\* line 288
AckFailure(t) ==
    /\ t \in inflight /\ t.pc = "f_stored"
    /\ pel' = XackPel(t.id)
    /\ ackLog' = ackLog \cup {t.id}
    /\ inflight' = (inflight \ {t}) \cup {Moved(t, "f_acked")}
    /\ UNCHANGED <<stream, nextId, nextMsg, groupExists, lastDelivered, rate, dlq,
                   permanent, wstate, heal, outcomes, faults, hist>>

\* line 289
DelFailure(t) ==
    /\ t \in inflight /\ t.pc = "f_acked"
    /\ stream' = XdelStream(t.id)
    /\ outcomes' = outcomes
    /\ inflight' = inflight \ {t}
    /\ UNCHANGED <<nextId, nextMsg, groupExists, lastDelivered, pel, rate, dlq,
                   permanent, wstate, heal, ackLog, faults, hist>>

\* A Redis call of the transaction raises.  Inside the try block (rate
\* limit pipeline, xack, xdel) control goes to the except branch; inside the
\* except branch the exception leaves the coroutine: asyncio.gather hands it
\* to the caller (which logs it) and the sibling coroutines run on detached.
StoreError(t) ==
    /\ t \in inflight
    /\ faults < MaxFaults
    /\ faults' = faults + 1
    /\ \/ /\ t.pc \in {"pre_ack", "acked"} \/ (t.pc = "start" /\ t.p.text # "blank")
          /\ inflight' = (inflight \ {t}) \cup {Moved(t, "failed")}
       \/ /\ t.pc \in {"failed", "f_stored", "f_acked"}
          /\ inflight' = {IF u.w = t.w /\ IsClaim(u) = IsClaim(t) THEN [u EXCEPT !.orphan = TRUE] ELSE u
                            : u \in inflight \ {t}}
    /\ UNCHANGED <<stream, nextId, nextMsg, groupExists, lastDelivered, pel, rate, dlq,
                   permanent, wstate, heal, outcomes, ackLog, hist>>

(***************************************************************************)
(* queue.py auto_heal_dlq, one action per Redis call of the loop           *)
(***************************************************************************)

\* raw_data = LPOP dlq:inbound, at most 10 times per call (heal.left = 0
\* between calls); an empty list ends the loop
AutoHealPop(w) ==
    /\ wstate[w] = "running"
    /\ heal[w].cur = NoEntry
    /\ dlq # <<>> \/ heal[w].left > 0
    /\ LET left == IF heal[w].left = 0 THEN HEAL_BATCH ELSE heal[w].left IN
       IF dlq = <<>>
       THEN /\ heal' = [heal EXCEPT ![w] = [left |-> 0, cur |-> NoEntry, popped |-> 0]]
            /\ dlq' = dlq
       ELSE /\ heal' = [heal EXCEPT ![w] = [left |-> left - 1, cur |-> Head(dlq),
                                             popped |-> (IF heal[w].left = 0 THEN 0 ELSE heal[w].popped) + 1]]
            /\ dlq' = Tail(dlq)
    /\ UNCHANGED <<stream, nextId, nextMsg, groupExists, lastDelivered, pel, rate,
                   permanent, wstate, inflight, outcomes, ackLog, faults, hist>>

\* (mutant) permanent storage one retry early
GoesPermanentEarly(retry_count) == retry_count >= MAX_RETRIES - 1

\* lines 105-107: does the popped entry go to permanent storage
GoesPermanent(retry_count) == retry_count >= MAX_RETRIES

\* (mutant) the retry count is bumped twice
NextRetryCountTwice(retry_count) == retry_count + 2

\* line 115: the retry count the re-queued payload carries
NextRetryCount(retry_count) == retry_count + 1

\* (mutant) an entry that does not parse is dropped
DropCorrupted(raw_data) == permanent

\* lines 122-125: the except branch pushes raw_data to permanent storage
KeepCorrupted(raw_data) == Append(permanent, raw_data)

\* line 102-103: orjson.loads(raw_data) gives an entry with its payload
Parsable(raw_data) == "original_payload" \in DOMAIN raw_data

\* lines 102-125: route the popped entry
AutoHealRoute(w) ==
    /\ wstate[w] = "running"
    /\ heal[w].cur # NoEntry
    /\ IF Parsable(heal[w].cur)
       THEN LET entry == heal[w].cur
                payload == entry.original_payload
                retry_count == int(payload.retry_count)
            IN /\ IF GoesPermanent(retry_count)
                  THEN /\ permanent' = Append(permanent, entry)
                       /\ UNCHANGED <<stream, nextId>>
                  ELSE /\ nextId <= MaxIds
                       /\ stream' = stream \cup
                            {[id |-> nextId,
                              p |-> [payload EXCEPT !.retry_count = str(NextRetryCount(retry_count))]]}
                       /\ nextId' = nextId + 1
                       /\ permanent' = permanent
               /\ hist' = [hist EXCEPT ![payload.message_id].heals = @ + 1]
       ELSE /\ permanent' = KeepCorrupted(heal[w].cur)
            /\ UNCHANGED <<stream, nextId, hist>>
    /\ heal' = [heal EXCEPT ![w].cur = NoEntry]
    /\ UNCHANGED <<nextMsg, groupExists, lastDelivered, pel, rate, dlq, wstate,
                   inflight, outcomes, ackLog, faults>>

\* the dead-letter list as failed transactions and operators fill it: one
\* more entry; kind is the retry count of its payload, or "corrupt" for bytes
\* that are not JSON.  Past the first MaxVaried entries the list is filled
\* with entries of retry count 3.
DlqArrive(kind) ==
    LET k == Len(dlq) + Len(permanent) + Cardinality(stream)
               + Cardinality({w \in Workers : heal[w].cur # NoEntry}) + 1
    IN /\ k <= MaxDlq
       /\ k <= MaxVaried \/ kind = str(MAX_RETRIES)
       /\ dlq' = Append(dlq,
                   IF kind = "corrupt" THEN [corrupt |-> TRUE]
                   ELSE [original_payload |->
                            [sender |-> "s1", text |-> "text", message_id |-> 1,
                             retry_count |-> kind],
                         error |-> "error"])
    /\ UNCHANGED <<stream, nextId, nextMsg, groupExists, lastDelivered, pel, rate,
                   permanent, wstate, inflight, heal, outcomes, ackLog, faults, hist>>

\* lines 122-125: a Redis call of the routing raises; the except branch
\* pushes raw_data to permanent storage, and when that push raises too the
\* exception leaves auto_heal_dlq with the popped entry stored nowhere.
AutoHealError(w, stored) ==
    /\ wstate[w] = "running"
    /\ heal[w].cur # NoEntry
    /\ faults < MaxFaults
    /\ faults' = faults + 1
    /\ IF stored
       THEN /\ permanent' = Append(permanent, heal[w].cur)
            /\ heal' = [heal EXCEPT ![w].cur = NoEntry]
       ELSE /\ permanent' = permanent
            /\ heal' = [heal EXCEPT ![w] = [left |-> 0, cur |-> NoEntry, popped |-> 0]]
    /\ UNCHANGED <<stream, nextId, nextMsg, groupExists, lastDelivered, pel, rate, dlq,
                   wstate, inflight, outcomes, ackLog, hist>>

(***************************************************************************)
(* Environment: time and process death                                     *)
(***************************************************************************)
\* Time passes by d milliseconds, d >= RATE_WINDOW * 1000: every pending
\* entry grows idler (idle times at or beyond MIN_IDLE_TIME are alike) and
\* every rate:{sender} key has expired.
TimePasses(d) ==
    /\ pel' = {[x EXCEPT !.idle = IF @ + d >= MIN_IDLE_TIME THEN MIN_IDLE_TIME ELSE @ + d]
                 : x \in pel}
    /\ rate' = [s \in Senders |-> 0]
    /\ pel' # pel \/ rate' # rate
    /\ UNCHANGED <<stream, nextId, nextMsg, groupExists, lastDelivered, dlq, permanent,
                   wstate, inflight, heal, outcomes, ackLog, faults, hist>>

\* the worker process is killed: its coroutines and local variables are gone
Crash(w) ==
    /\ wstate[w] = "running"
    /\ wstate' = [wstate EXCEPT ![w] = "dead"]
    /\ inflight' = inflight \ TasksOf(w)
    /\ heal' = [heal EXCEPT ![w] = [left |-> 0, cur |-> NoEntry, popped |-> 0]]
    /\ UNCHANGED <<stream, nextId, nextMsg, groupExists, lastDelivered, pel, rate, dlq,
                   permanent, outcomes, ackLog, faults, hist>>

(***************************************************************************)
(* Part 2: the leadership lock, tool_registry.py load_swagger              *)
(* lpc of a process:                                                       *)
(*   idle      -> load_swagger not called yet                              *)
(*   call      -> about to SET LOCK_KEY worker_id EX 900 NX                *)
(*   leader    -> inside _leader_load            finally -> the finally    *)
(*   follower  -> _follower_wait, first _load_cache                        *)
(*   polling   -> the poll loop of _follower_wait                          *)
(*   returned  -> load_swagger is over           killed  -> process death  *)
(***************************************************************************)
InitLock ==
    /\ now = 0
    /\ lock = NoLock
    /\ lpc = [p \in Procs |-> "idle"]
    /\ is_leader = [p \in Procs |-> FALSE]
    /\ pending = [p \in Procs |-> "none"]
    /\ ret = [p \in Procs |-> "none"]
    /\ since = [p \in Procs |-> 0]
    /\ cache = FALSE
    /\ acqLog = <<>>
    /\ killedAs = [p \in Procs |-> NoEntry]

\* clock granularity of the lock model
LockStep == LOCK_TIMEOUT \div 3
\* the wait budget of a follower: 120 polls, 5 seconds apart
FollowerBudget == FOLLOWER_POLLS * POLL_SLEEP

\* worker.py 138-141, tool_registry.py 847-852: a process calls load_swagger
CallLoadSwagger(p) ==
    /\ lpc[p] = "idle"
    /\ lpc' = [lpc EXCEPT ![p] = "call"]
    /\ UNCHANGED <<now, lock, is_leader, pending, ret, since, cache, acqLog, killedAs>>

\* (mutant) SET without NX: the key is written whether it exists or not
SetAlways(present) == TRUE

\* SET key value NX: succeeds iff the key does not exist
SetNx(present) == ~present

\* lines 380-389 and 401-403: SET LOCK_KEY worker_id EX 900 NX decides the role
TryBecomeLeader(p) ==
    /\ lpc[p] = "call"
    /\ IF SetNx(lock # NoLock)
       THEN /\ lock' = [owner |-> p, expires |-> now + LOCK_TIMEOUT]
            /\ is_leader' = [is_leader EXCEPT ![p] = TRUE]
            /\ lpc' = [lpc EXCEPT ![p] = "leader"]
            /\ acqLog' = Append(acqLog, [p |-> p, at |-> now])
            /\ since' = since
       ELSE /\ lpc' = [lpc EXCEPT ![p] = "follower"]
            /\ since' = [since EXCEPT ![p] = now]
            /\ UNCHANGED <<lock, is_leader, acqLog>>
    /\ UNCHANGED <<now, pending, ret, cache, killedAs>>

\* lines 391-392, 405-417: _leader_load returns True (and the snapshot was
\* saved, unless the write failed), returns False, or raises
LeaderLoad(p, outcome, saved) ==
    /\ lpc[p] = "leader"
    /\ lpc' = [lpc EXCEPT ![p] = "finally"]
    /\ pending' = [pending EXCEPT ![p] = outcome]
    /\ cache' = (cache \/ (outcome = "true" /\ saved))
    /\ UNCHANGED <<now, lock, is_leader, ret, since, acqLog, killedAs>>

\* (mutant) the lock is deleted on the success path only
FinallyDeleteOnSuccess(outcome) == IF outcome = "raised" THEN lock ELSE NoLock

\* line 398: redis.delete(LOCK_KEY) in the finally block, whatever value the
\* key holds
FinallyDelete(outcome) == NoLock

\* the value load_swagger hands back: result, or False from the except branch
ReturnValue(outcome) == IF outcome = "true" THEN "true" ELSE "false"

\* lines 393-400: except returns False, finally deletes the key
ReleaseLock(p) ==
    /\ lpc[p] = "finally"
    /\ lock' = FinallyDelete(pending[p])
    /\ is_leader' = [is_leader EXCEPT ![p] = FALSE]
    /\ ret' = [ret EXCEPT ![p] = ReturnValue(pending[p])]
    /\ lpc' = [lpc EXCEPT ![p] = "returned"]
    /\ UNCHANGED <<now, pending, since, cache, acqLog, killedAs>>

\* lines 421-425: an existing snapshot with tools ends the wait at once
FollowerFirstLoad(p) ==
    /\ lpc[p] = "follower"
    /\ IF cache
       THEN /\ lpc' = [lpc EXCEPT ![p] = "returned"]
            /\ ret' = [ret EXCEPT ![p] = "true"]
       ELSE /\ lpc' = [lpc EXCEPT ![p] = "polling"]
            /\ ret' = ret
    /\ UNCHANGED <<now, lock, is_leader, pending, since, cache, acqLog, killedAs>>

\* lines 428-435: a poll that finds the key gone and a snapshot to load
FollowerPoll(p) ==
    /\ lpc[p] = "polling"
    /\ now - since[p] < FollowerBudget
    /\ lock = NoLock /\ cache
    /\ lpc' = [lpc EXCEPT ![p] = "returned"]
    /\ ret' = [ret EXCEPT ![p] = "true"]
    /\ UNCHANGED <<now, lock, is_leader, pending, since, cache, acqLog, killedAs>>

\* lines 438-439: the 120 polls are used up
FollowerTimeout(p) ==
    /\ lpc[p] = "polling"
    /\ now - since[p] >= FollowerBudget
    /\ lpc' = [lpc EXCEPT ![p] = "returned"]
    /\ ret' = [ret EXCEPT ![p] = "false"]
    /\ UNCHANGED <<now, lock, is_leader, pending, since, cache, acqLog, killedAs>>

\* the process is killed inside load_swagger: nothing of it runs any more,
\* its finally block included
Kill(p) ==
    /\ lpc[p] \in {"call", "leader", "finally", "follower", "polling"}
    /\ lpc' = [lpc EXCEPT ![p] = "killed"]
    /\ killedAs' = [killedAs EXCEPT ![p] =
                      IF lpc[p] \in {"leader", "finally"}
                      THEN [n |-> Len(acqLog),
                            at |-> acqLog[CHOOSE i \in 1..Len(acqLog) : acqLog[i].p = p].at]
                      ELSE NoEntry]
    /\ UNCHANGED <<now, lock, is_leader, pending, ret, since, cache, acqLog>>

\* LockStep seconds pass; Redis drops the key when its lease is over.  A
\* follower in the poll loop does not sleep past its budget.
Tick ==
    /\ now + LockStep <= MaxTicks * LockStep
    /\ \A p \in Procs : lpc[p] = "polling" => now - since[p] < FollowerBudget
    /\ now' = now + LockStep
    /\ lock' = IF lock # NoLock /\ now' >= lock.expires THEN NoLock ELSE lock
    /\ UNCHANGED <<lpc, is_leader, pending, ret, since, cache, acqLog, killedAs>>

(***************************************************************************)
(* _follower_wait lines 427-439 pass by pass: for attempt in range(120)    *)
(***************************************************************************)
InitWait == polls = [p \in Procs |-> 0]

\* the processes whose wait is followed pass by pass
Waiters == {"p1", "p2"}

\* (mutant) one pass more than the budget
PollsLeftOneMore(n) == n <= FOLLOWER_POLLS

\* line 428: the loop has passes left
PollsLeft(n) == n < FOLLOWER_POLLS

\* lines 428-436: one pass: GET LOCK_KEY; the key is gone and the snapshot
\* loads: ready; otherwise sleep 5 s and go on
PollPass(p) ==
    /\ lpc[p] = "polling"
    /\ PollsLeft(polls[p])
    /\ IF lock = NoLock /\ cache
       THEN /\ lpc' = [lpc EXCEPT ![p] = "returned"]
            /\ ret' = [ret EXCEPT ![p] = "true"]
            /\ UNCHANGED polls
       ELSE /\ polls' = [polls EXCEPT ![p] = polls[p] + 1]
            /\ UNCHANGED <<lpc, ret>>
    /\ UNCHANGED <<now, lock, is_leader, pending, since, cache, acqLog, killedAs>>

\* lines 438-439: the loop is over, return False
PollGiveUp(p) ==
    /\ lpc[p] = "polling"
    /\ ~PollsLeft(polls[p])
    /\ lpc' = [lpc EXCEPT ![p] = "returned"]
    /\ ret' = [ret EXCEPT ![p] = "false"]
    /\ UNCHANGED <<now, lock, is_leader, pending, since, cache, acqLog, killedAs, polls>>

\* Redis drops the key when its lease is over
LeaseExpires ==
    /\ lock # NoLock
    /\ lock' = NoLock
    /\ UNCHANGED <<now, lpc, is_leader, pending, ret, since, cache, acqLog, killedAs, polls>>

\* what a follower does on its own
FollowerStep(p) ==
    \/ FollowerFirstLoad(p) /\ UNCHANGED wvars
    \/ PollPass(p)
    \/ PollGiveUp(p)

NextWait ==
    \/ \E p \in Waiters : CallLoadSwagger(p) /\ UNCHANGED restL
    \/ \E p \in Waiters : TryBecomeLeader(p) /\ UNCHANGED restL
    \/ \E p \in Waiters, outcome \in {"true", "false", "raised"}, saved \in BOOLEAN :
          LeaderLoad(p, outcome, saved) /\ UNCHANGED restL
    \/ \E p \in Waiters : ReleaseLock(p) /\ UNCHANGED restL
    \/ \E p \in Waiters : Kill(p) /\ UNCHANGED restL
    \/ LeaseExpires /\ UNCHANGED restW
    \/ \E p \in Waiters : FollowerStep(p) /\ UNCHANGED restW

NextLock ==
    \/ \E p \in Procs : CallLoadSwagger(p) /\ UNCHANGED restL
    \/ \E p \in Procs : TryBecomeLeader(p) /\ UNCHANGED restL
    \/ \E p \in Procs, outcome \in {"true", "false", "raised"}, saved \in BOOLEAN :
          LeaderLoad(p, outcome, saved) /\ UNCHANGED restL
    \/ \E p \in Procs : ReleaseLock(p) /\ UNCHANGED restL
    \/ \E p \in Procs : FollowerFirstLoad(p) /\ UNCHANGED restL
    \/ \E p \in Procs : FollowerPoll(p) /\ UNCHANGED restL
    \/ \E p \in Procs : FollowerTimeout(p) /\ UNCHANGED restL
    \/ \E p \in Procs : Kill(p) /\ UNCHANGED restL
    \/ Tick /\ UNCHANGED restL

(***************************************************************************)
(* Part 3: the registry snapshot, tool_registry.py _save_cache_atomic,     *)
(* _write_cache_atomic, _load_cache, _load_cache_file                      *)
(***************************************************************************)
OpIds == {OpOrder[i] : i \in 1..Len(OpOrder)}
Missing == [missing |-> TRUE]     \* the path does not exist
Corrupt == [corrupt |-> TRUE]     \* json.load raises JSONDecodeError
Invalid == [invalid |-> TRUE]     \* parses, but "tools"/"embeddings" is no dict
NoSnapshot == [nosnapshot |-> TRUE]   \* _load_cache returned False
EmptyMap == [x \in {} |-> x]
Maps(Vals) == UNION {[D -> Vals] : D \in SUBSET OpIds}

\* json.dump of a dict: the items one after the other
JsonDump(map) ==
    LET keys == SelectSeq(OpOrder, LAMBDA k : k \in DOMAIN map)
    IN [i \in 1..Len(keys) |-> <<keys[i], map[keys[i]]>>]

\* json.load of an object: a dict of its items, a later item replacing an
\* earlier one with the same key
JsonLoad(items) ==
    [k \in {items[i][1] : i \in 1..Len(items)} |->
        items[CHOOSE i \in 1..Len(items) :
                 /\ items[i][1] = k
                 /\ \A j \in 1..Len(items) : items[j][1] = k => j <= i][2]]

\* _calculate_checksum: a digest of the list of descriptor keys
calculate_checksum(tools) == SelectSeq(OpOrder, LAMBDA k : k \in DOMAIN tools)

\* lines 626-632 and 643: the document written for a registry state
SnapshotDoc(tools, embeddings) ==
    [version |-> "9.0", checksum |-> calculate_checksum(tools),
     tools |-> JsonDump(tools), embeddings |-> JsonDump(embeddings)]

InitSnapshot ==
    /\ tools_map = [r \in Regs |-> EmptyMap]
    /\ embeddings_map = [r \in Regs |-> EmptyMap]
    /\ live = Missing
    /\ backup = Missing
    /\ tmp = Missing
    /\ spc = [r \in Regs |-> "idle"]
    /\ readDoc = [r \in Regs |-> NoEntry]

\* _process_spec line 523: tools_map[op_id] = tool_entry
Ingest(r, op, d) ==
    /\ spc[r] = "idle"
    /\ tools_map' = [tools_map EXCEPT ![r] =
                        [k \in DOMAIN @ \cup {op} |-> IF k = op THEN d ELSE @[k]]]
    /\ tools_map' # tools_map
    /\ readDoc' = [readDoc EXCEPT ![r] = NoEntry]
    /\ UNCHANGED <<embeddings_map, live, backup, tmp, spc>>

\* generate_embeddings lines 678-706: a vector for a descriptor lacking one
Embed(r, op, v) ==
    /\ spc[r] = "idle"
    /\ op \in DOMAIN tools_map[r] /\ op \notin DOMAIN embeddings_map[r]
    /\ embeddings_map' = [embeddings_map EXCEPT ![r] =
                        [k \in DOMAIN @ \cup {op} |-> IF k = op THEN v ELSE @[k]]]
    /\ readDoc' = [readDoc EXCEPT ![r] = NoEntry]
    /\ UNCHANGED <<tools_map, live, backup, tmp, spc>>

\* the process is restarted: a new ToolRegistry with empty maps; a write in
\* progress stops where it was
Restart(r) ==
    /\ tools_map[r] # EmptyMap \/ embeddings_map[r] # EmptyMap \/ spc[r] # "idle"
    /\ tools_map' = [tools_map EXCEPT ![r] = EmptyMap]
    /\ embeddings_map' = [embeddings_map EXCEPT ![r] = EmptyMap]
    /\ spc' = [spc EXCEPT ![r] = "idle"]
    /\ readDoc' = [readDoc EXCEPT ![r] = NoEntry]
    /\ UNCHANGED <<live, backup, tmp>>

\* _save_cache_atomic 622-634 and _write_cache_atomic 642-645: nothing is
\* written for an empty tools_map; otherwise the document goes to the
\* temporary file
SaveStart(r) ==
    /\ spc[r] = "idle"
    /\ tools_map[r] # EmptyMap
    /\ tmp' = SnapshotDoc(tools_map[r], embeddings_map[r])
    /\ spc' = [spc EXCEPT ![r] = "tmp"]
    /\ UNCHANGED <<tools_map, embeddings_map, live, backup, readDoc>>

\* lines 648-652: copy the current snapshot to the backup; a failed copy is
\* logged and the write goes on
SaveBackup(r, copied) ==
    /\ spc[r] = "tmp"
    /\ backup' = IF live # Missing /\ copied THEN live ELSE backup
    /\ spc' = [spc EXCEPT ![r] = "backed"]
    /\ UNCHANGED <<tools_map, embeddings_map, live, tmp, readDoc>>

\* line 655: tmp_path.replace(CACHE_FILE); with the temporary file gone the
\* rename raises and the except branch finds nothing to unlink
SaveRename(r) ==
    /\ spc[r] = "backed"
    /\ live' = IF tmp # Missing THEN tmp ELSE live
    /\ tmp' = Missing
    /\ spc' = [spc EXCEPT ![r] = "idle"]
    /\ UNCHANGED <<tools_map, embeddings_map, backup, readDoc>>

\* lines 659-665: a step of the write raises; the temporary file is removed
SaveError(r) ==
    /\ spc[r] \in {"tmp", "backed"}
    /\ tmp' = Missing
    /\ spc' = [spc EXCEPT ![r] = "idle"]
    /\ UNCHANGED <<tools_map, embeddings_map, live, backup, readDoc>>

\* _read_json_safe: the parsed document, None when json.load raises
read_json_safe(file) == IF file = Corrupt THEN None ELSE file

\* _load_cache_file 571-583: the file exists, parses, and has the structure
Usable(file) ==
    /\ file # Missing
    /\ read_json_safe(file) # None
    /\ read_json_safe(file) # Invalid

\* line 585: embeddings_map is replaced by the loaded one
LoadedEmbeddings(present, doc) == JsonLoad(doc.embeddings)

\* lines 587-590: a loaded descriptor is taken only for an op_id that
\* tools_map does not hold yet
LoadedTools(present, doc) ==
    [k \in DOMAIN present \cup DOMAIN JsonLoad(doc.tools) |->
        IF k \in DOMAIN present THEN present[k] ELSE JsonLoad(doc.tools)[k]]

\* _load_cache 549-567: the main file, else the backup, which is then copied
\* over the main file (a failed copy is ignored)
LoadCache(r, restored) ==
    /\ spc[r] = "idle"
    /\ LET doc == IF Usable(live) THEN live
                  ELSE IF Usable(backup) THEN backup ELSE Missing
       IN IF doc = Missing
          THEN /\ UNCHANGED <<tools_map, embeddings_map, live>>
               /\ readDoc' = [readDoc EXCEPT ![r] = NoSnapshot]
          ELSE /\ embeddings_map' = [embeddings_map EXCEPT ![r] = LoadedEmbeddings(@, doc)]
               /\ tools_map' = [tools_map EXCEPT ![r] = LoadedTools(@, doc)]
               /\ live' = IF ~Usable(live) /\ restored THEN backup ELSE live
               /\ readDoc' = [readDoc EXCEPT ![r] = doc]
    /\ UNCHANGED <<backup, tmp, spc>>

\* the main file is damaged on disk: deleted, truncated, or overwritten with
\* JSON of another structure
CorruptLive(how) ==
    /\ Usable(live)
    /\ live' = how
    /\ UNCHANGED <<tools_map, embeddings_map, backup, tmp, spc, readDoc>>

NextSnapshot ==
    \/ \E r \in Regs, op \in OpIds, d \in Descs : Ingest(r, op, d) /\ UNCHANGED restS
    \/ \E r \in Regs, op \in OpIds, v \in Vecs : Embed(r, op, v) /\ UNCHANGED restS
    \/ \E r \in Regs : Restart(r) /\ UNCHANGED restS
    \/ \E r \in Regs : SaveStart(r) /\ UNCHANGED restS
    \/ \E r \in Regs, copied \in BOOLEAN : SaveBackup(r, copied) /\ UNCHANGED restS
    \/ \E r \in Regs : SaveRename(r) /\ UNCHANGED restS
    \/ \E r \in Regs : SaveError(r) /\ UNCHANGED restS
    \/ \E r \in Regs, restored \in BOOLEAN : LoadCache(r, restored) /\ UNCHANGED restS
    \/ \E how \in {Missing, Corrupt, Invalid} : CorruptLive(how) /\ UNCHANGED restS

(***************************************************************************)
(* Part 4: semantic search, tool_registry.py find_relevant_tools,          *)
(* _embedding_search, _cosine_similarity                                   *)
(***************************************************************************)
\* no vector: None or an empty list, `not vec` in the source
NoVec == <<>>

InitSearch ==
    /\ catalog = <<>>
    /\ is_ready = FALSE
    /\ query_vec = NoVec
    /\ limit = -1
    /\ found = <<>>

\* a score dot / sqrt(n), kept exact; n > 0
Zero == [dot |-> 0, n |-> 1]
\* SIMILARITY_THRESHOLD = 0.60 = 3 / sqrt(25)
SIMILARITY_THRESHOLD == [dot |-> 3, n |-> 25]
SignedSquare(d) == IF d >= 0 THEN d * d ELSE 0 - (d * d)
\* s > t on scores
Greater(s, t) == SignedSquare(s.dot) * t.n > SignedSquare(t.dot) * s.n

\* BLACKLIST: operation ids denied as they are
BLACKLIST == {"post_Batch"}
\* str.lower() on the strings of the model
Lower(s) == IF s = "post_Batch" THEN "post_batch" ELSE s
\* any(p in text for p in BLACKLIST_PATTERNS): the strings of the model that
\* contain "batch" or "export"
HasPattern(text) == text \in {"post_batch", "/vehicles/export"}
\* _is_blacklisted(op_id, path=""): patterns are looked for in
\* f"{op_id.lower()} {path.lower()}"
is_blacklisted(op_id, path) ==
    \/ op_id \in BLACKLIST
    \/ HasPattern(Lower(op_id))
    \/ HasPattern(Lower(path))

\* _cosine_similarity: dot / (norm_a * norm_b), 0.0 for an empty or zero vector
cosine_similarity(a, b) ==
    LET dot == a[1] * b[1] + a[2] * b[2]
        norm_a2 == a[1] * a[1] + a[2] * a[2]
        norm_b2 == b[1] * b[1] + b[2] * b[2]
    IN IF a = <<>> \/ b = <<>> \/ norm_a2 = 0 \/ norm_b2 = 0 THEN Zero
       ELSE [dot |-> dot, n |-> norm_a2 * norm_b2]

\* (mutant) every score passes
AboveThresholdAlways(score) == TRUE

\* line 796: score > SIMILARITY_THRESHOLD
AboveThreshold(score) == Greater(score, SIMILARITY_THRESHOLD)

\* list.sort(key=score, reverse=True): x goes behind every item that does
\* not score lower (the sort is stable)
InsertDesc(sorted, x) ==
    LET k == Cardinality({i \in 1..Len(sorted) : ~Greater(x.score, sorted[i].score)})
    IN SubSeq(sorted, 1, k) \o <<x>> \o SubSeq(sorted, k + 1, Len(sorted))

RECURSIVE SortDesc(_)
SortDesc(seq) ==
    IF seq = <<>> THEN <<>>
    ELSE InsertDesc(SortDesc(SubSeq(seq, 1, Len(seq) - 1)), seq[Len(seq)])

\* _embedding_search 779-805: [] without a query vector; otherwise the
\* descriptors that are not deny-listed, have a vector and score above the
\* threshold, best first, cut to `limit`
embedding_search(query, k) ==
    IF query = NoVec THEN <<>>
    ELSE LET cand == SelectSeq(catalog, LAMBDA e :
                        /\ ~is_blacklisted(e.op, "")
                        /\ e.vec # NoVec
                        /\ AboveThreshold(cosine_similarity(query, e.vec)))
             scored == [i \in 1..Len(cand) |->
                          [score |-> cosine_similarity(query, cand[i].vec), op |-> cand[i].op]]
             sorted == SortDesc(scored)
             top == SubSeq(sorted, 1, IF k < Len(sorted) THEN k ELSE Len(sorted))
         IN [i \in 1..Len(top) |-> top[i].op]

\* _process_spec line 523 and generate_embeddings: one more descriptor, with
\* its vector or (the embedding call failed) without
IndexTool(op, vec) ==
    /\ Len(catalog) < MaxTools
    /\ \A i \in 1..Len(catalog) : catalog[i].op # op
    /\ catalog' = Append(catalog, [op |-> op, vec |-> vec])
    /\ query_vec' = NoVec /\ limit' = -1 /\ found' = <<>>
    /\ UNCHANGED is_ready

\* lines 424, 433, 463: the registry has tools and is ready
SetReady ==
    /\ ~is_ready /\ catalog # <<>>
    /\ is_ready' = TRUE
    /\ query_vec' = NoVec /\ limit' = -1 /\ found' = <<>>
    /\ UNCHANGED catalog

\* find_relevant_tools 751-771 with the query's embedding (NoVec when
\* _get_embedding failed)
find_relevant_tools(query, top_k) ==
    /\ query_vec' = query
    /\ limit' = top_k
    /\ found' = IF ~is_ready THEN <<>> ELSE embedding_search(query, top_k)
    /\ UNCHANGED <<catalog, is_ready>>

NextSearch ==
    \/ \E op \in SearchOps, vec \in ToolVecs \cup {NoVec} : IndexTool(op, vec) /\ UNCHANGED restF
    \/ SetReady /\ UNCHANGED restF
    \/ \E query \in QueryVecs \cup {NoVec}, top_k \in 0..MaxK :
          find_relevant_tools(query, top_k) /\ UNCHANGED restF

(***************************************************************************)
(* Part 5: outbound messages and scheduled retries, worker.py              *)
(* _process_outbound, _process_retries; queue.py enqueue, schedule_retry   *)
(***************************************************************************)
InitOutbound ==
    /\ outbound = <<>>
    /\ schedule = {}
    /\ rtime = 0
    /\ skew = [w \in Workers |-> 0]
    /\ opc = [w \in Workers |-> "new"]
    /\ task = [w \in Workers |-> NoEntry]
    /\ issued = {}
    /\ promoCount = [m \in {} |-> 0]
    /\ schedCount = [c \in Cids |-> 0]
    /\ lostRace = {}
    /\ dropped = {}
    /\ sentLog = {}

\* delay = 2 ** attempts, seconds
Backoff(attempts) == 2 ^ attempts
\* clock granularity: the shortest delay
TimeStep == Backoff(1)
\* asyncio.get_event_loop().time() in worker w: a monotonic clock whose
\* reference point belongs to the process's host
LoopTime(w) == rtime + skew[w]
\* the readings the clocks of two hosts can differ by
Skews == {0, Backoff(3)}

\* the worker process starts; its event loop's clock has its own origin
StartPoller(w, k) ==
    /\ opc[w] = "new"
    /\ opc' = [opc EXCEPT ![w] = "idle"]
    /\ skew' = [skew EXCEPT ![w] = k]
    /\ UNCHANGED <<outbound, schedule, rtime, task, issued, promoCount, schedCount,
                   lostRace, dropped, sentLog>>

\* queue.py enqueue 134-157 as the message handlers call it: a new
\* correlation id, attempts 0, RPUSH
enqueue(cid) ==
    /\ cid \notin issued
    /\ issued' = issued \cup {cid}
    /\ outbound' = Append(outbound, [cid |-> cid, attempts |-> 0])
    /\ UNCHANGED <<schedule, rtime, skew, opc, task, promoCount, schedCount,
                   lostRace, dropped, sentLog>>

\* (mutant) one more retry before giving up
GivesUpLate(attempts) == attempts > MAX_ATTEMPTS

\* queue.py 165: if attempts >= 5
GivesUp(attempts) == attempts >= MAX_ATTEMPTS

\* ZADD key {member: score}: a member already in the set only gets the new score
Zadd(w, m, score) ==
    {e \in schedule : e.m # m} \cup {[m |-> m, score |-> score, rt |-> rtime, by |-> w]}

\* queue.py schedule_retry 159-181, called by worker w
schedule_retry(w, payload) ==
    LET attempts == payload.attempts + 1 IN
    IF GivesUp(attempts)
    THEN /\ dropped' = dropped \cup {payload}
         /\ UNCHANGED <<schedule, schedCount>>
    ELSE /\ schedule' = Zadd(w, [payload EXCEPT !.attempts = attempts],
                             LoopTime(w) + Backoff(attempts))
         /\ schedCount' = [schedCount EXCEPT ![payload.cid] = @ + 1]
         /\ dropped' = dropped

\* worker.py _process_outbound 494-508: BLPOP, _send_infobip; when the send
\* raises the payload goes to schedule_retry
ProcessOutbound(w, sent) ==
    /\ opc[w] # "new"
    /\ outbound # <<>>
    /\ outbound' = Tail(outbound)
    /\ IF sent
       THEN /\ sentLog' = sentLog \cup {Head(outbound)}
            /\ UNCHANGED <<schedule, schedCount, dropped>>
       ELSE schedule_retry(w, Head(outbound)) /\ UNCHANGED sentLog
    /\ UNCHANGED <<rtime, skew, opc, task, issued, promoCount, lostRace>>

\* worker.py 504-508 with a Redis call that raises: the send raised, and in
\* the except branch the ZADD of schedule_retry (queue.py 176) raises too;
\* the exception leaves _process_outbound with the payload
ScheduleRetryRaises(w) ==
    /\ opc[w] # "new"
    /\ outbound # <<>>
    /\ ~GivesUp(Head(outbound).attempts + 1)
    /\ outbound' = Tail(outbound)
    /\ UNCHANGED <<schedule, rtime, skew, opc, task, issued, promoCount, schedCount,
                   lostRace, dropped, sentLog>>

\* worker.py 514-517: now = loop.time(); ZRANGEBYSCORE 0 now LIMIT 0 1
PollRead(w) ==
    /\ opc[w] = "idle"
    /\ LET due == {e \in schedule : 0 <= e.score /\ e.score <= LoopTime(w)}
       IN \E e \in due :
            /\ \A x \in due : e.score <= x.score
            /\ task' = [task EXCEPT ![w] = e]
    /\ opc' = [opc EXCEPT ![w] = "picked"]
    /\ UNCHANGED <<outbound, schedule, rtime, skew, issued, promoCount, schedCount,
                   lostRace, dropped, sentLog>>

\* (mutant) the result of ZREM is not looked at
ZremIgnored(m) == TRUE

\* ZREM key member: 1 when the member was in the set
Zrem(m) == \E e \in schedule : e.m = m

\* worker.py 518: if await self.redis.zrem(QUEUE_SCHEDULE, tasks[0])
PollRemove(w) ==
    /\ opc[w] = "picked"
    /\ schedule' = {e \in schedule : e.m # task[w].m}
    /\ IF Zrem(task[w].m)
       THEN /\ opc' = [opc EXCEPT ![w] = "removed"]
            /\ UNCHANGED <<task, lostRace>>
       ELSE /\ opc' = [opc EXCEPT ![w] = "idle"]
            /\ task' = [task EXCEPT ![w] = NoEntry]
            /\ lostRace' = lostRace \cup {<<w, task[w].m>>}
    /\ UNCHANGED <<outbound, rtime, skew, issued, promoCount, schedCount, dropped, sentLog>>

\* worker.py 519-527: queue.enqueue(to, text, cid, attempts), RPUSH
PollEnqueue(w) ==
    /\ opc[w] = "removed"
    /\ outbound' = Append(outbound, task[w].m)
    /\ promoCount' = [m \in DOMAIN promoCount \cup {task[w].m} |->
                        IF m = task[w].m
                        THEN (IF m \in DOMAIN promoCount THEN promoCount[m] ELSE 0) + 1
                        ELSE promoCount[m]]
    /\ opc' = [opc EXCEPT ![w] = "idle"]
    /\ task' = [task EXCEPT ![w] = NoEntry]
    /\ UNCHANGED <<schedule, rtime, skew, issued, schedCount, lostRace, dropped, sentLog>>

\* worker.py 528-530: a Redis call of the poller raises (ZREM, or the RPUSH
\* of enqueue); the exception is logged and the poll is over
PollError(w) ==
    /\ opc[w] \in {"picked", "removed"}
    /\ opc' = [opc EXCEPT ![w] = "idle"]
    /\ task' = [task EXCEPT ![w] = NoEntry]
    /\ UNCHANGED <<outbound, schedule, rtime, skew, issued, promoCount, schedCount,
                   lostRace, dropped, sentLog>>

\* TimeStep seconds pass
Advance ==
    /\ rtime + TimeStep <= MaxClock * TimeStep
    /\ rtime' = rtime + TimeStep
    /\ UNCHANGED <<outbound, schedule, skew, opc, task, issued, promoCount, schedCount,
                   lostRace, dropped, sentLog>>

NextOutbound ==
    \/ \E w \in Workers, k \in Skews : StartPoller(w, k) /\ UNCHANGED restO
    \/ \E cid \in Cids : enqueue(cid) /\ UNCHANGED restO
    \/ \E w \in Workers, sent \in BOOLEAN : ProcessOutbound(w, sent) /\ UNCHANGED restO
    \/ \E w \in Workers : PollRead(w) /\ UNCHANGED restO
    \/ \E w \in Workers : PollRemove(w) /\ UNCHANGED restO
    \/ \E w \in Workers : PollEnqueue(w) /\ UNCHANGED restO
    \/ Advance /\ UNCHANGED restO

\* the same, with Redis calls of the poller that raise
NextOutboundFaulty ==
    \/ NextOutbound
    \/ \E w \in Workers : PollError(w) /\ UNCHANGED restO
    \/ \E w \in Workers : ScheduleRetryRaises(w) /\ UNCHANGED restO

(***************************************************************************)
(* Part 6: the gateway, openapi_bridge.py execute_tool, _execute_request,  *)
(* _get_valid_token, _fetch_fresh_token, _invalidate_token                 *)
(***************************************************************************)
InitGateway ==
    /\ token = 0 /\ token_fresh = FALSE
    /\ token_cache = 0 /\ minted = 0
    /\ gpc = "idle" /\ headers = 0 /\ attempt = 0
    /\ result = [error |-> FALSE, status |-> 0]
    /\ calls = 0 /\ statuses = <<>> /\ refreshes = 0 /\ streak = 0

\* the state of the token store: self._token, its freshness, the Redis key
\* and the auth server's counter
TokenState == [token |-> token, fresh |-> token_fresh, cache |-> token_cache,
               minted |-> minted]

\* _fetch_fresh_token: POST to the auth server; anything but a 200 raises,
\* a 200 sets self._token and the Redis key
fetch_fresh_token(st, fetch_ok) ==
    IF fetch_ok
    THEN [ret |-> st.minted + 1, raised |-> FALSE,
          st |-> [token |-> st.minted + 1, fresh |-> TRUE,
                  cache |-> st.minted + 1, minted |-> st.minted + 1]]
    ELSE [ret |-> 0, raised |-> TRUE, st |-> st]

\* _get_valid_token: self._token while fresh, else the Redis key, else a
\* fetched one
get_valid_token(st, fetch_ok) ==
    IF st.token # 0 /\ st.fresh
    THEN [ret |-> st.token, raised |-> FALSE, st |-> st]
    ELSE IF st.cache # 0
    THEN [ret |-> st.cache, raised |-> FALSE,
          st |-> [st EXCEPT !.token = st.cache, !.fresh = TRUE]]
    ELSE fetch_fresh_token(st, fetch_ok)

\* _invalidate_token: self._token = None, DELETE of the Redis key
invalidate_token(st) == [st EXCEPT !.token = 0, !.fresh = FALSE, !.cache = 0]

SetTokenState(st) ==
    /\ token' = st.token
    /\ token_fresh' = st.fresh
    /\ token_cache' = st.cache
    /\ minted' = st.minted

\* (mutant) every 4xx answer is retried after a refresh
RefreshesOnAny4xx(answer, n) == answer >= 400 /\ answer < 500 /\ n < max_retries

\* (mutant) a 401 is retried whatever the attempt
RefreshesUnbounded(answer, n) == answer = 401

\* _execute_request line 348: a 401 is answered by a refresh and a retry
\* while attempt < max_retries
Refreshes(answer, n) == answer = 401 /\ n < max_retries

\* a result that reports the remote API as failing: no answer after the
\* last attempt, or a 5xx
RemoteFailed(res) == res.error /\ (res.status = 0 \/ res.status >= 500)

\* execute_tool up to the call of _execute_request
execute_tool(fetch_ok) ==
    /\ gpc \in {"idle", "done"}
    /\ calls < MaxCalls
    /\ fetch_ok => minted < MaxTokens
    /\ calls' = calls + 1
    /\ statuses' = <<>> /\ refreshes' = 0 /\ attempt' = 0
    /\ UNCHANGED streak
    /\ LET g == get_valid_token(TokenState, fetch_ok) IN
         /\ SetTokenState(g.st)
         /\ IF g.raised
            THEN /\ gpc' = "done"
                 /\ result' = [error |-> TRUE, status |-> 0]
                 /\ UNCHANGED headers
            ELSE /\ gpc' = "request"
                 /\ headers' = g.ret
                 /\ result' = [error |-> FALSE, status |-> 0]

\* one pass of the loop of _execute_request: the request, and what follows
\* its answer
execute_request(answer, fetch_ok) ==
    /\ gpc = "request"
    /\ fetch_ok => minted < MaxTokens
    /\ statuses' = Append(statuses, answer)
    /\ UNCHANGED calls
    /\ IF answer = 0
       THEN \* except TimeoutException / Exception
            /\ UNCHANGED <<token, token_fresh, token_cache, minted, headers, refreshes>>
            /\ IF attempt < max_retries
               THEN attempt' = attempt + 1 /\ UNCHANGED <<gpc, result>>
               ELSE /\ gpc' = "done" /\ result' = [error |-> TRUE, status |-> 0]
                    /\ UNCHANGED attempt
       ELSE IF Refreshes(answer, attempt)
       THEN LET g == get_valid_token(invalidate_token(TokenState), fetch_ok) IN
              /\ refreshes' = refreshes + 1
              /\ SetTokenState(g.st)
              /\ headers' = IF g.raised THEN headers ELSE g.ret
              \* a raising _get_valid_token lands in except Exception
              /\ IF g.raised /\ ~(attempt < max_retries)
                 THEN /\ gpc' = "done" /\ result' = [error |-> TRUE, status |-> 0]
                      /\ UNCHANGED attempt
                 ELSE attempt' = attempt + 1 /\ UNCHANGED <<gpc, result>>
       ELSE /\ gpc' = "done"
            /\ result' = [error |-> answer >= 400, status |-> answer]
            /\ UNCHANGED <<token, token_fresh, token_cache, minted, headers, refreshes,
                           attempt>>
    /\ streak' = IF gpc' # "done" THEN streak
                 ELSE IF RemoteFailed(result') THEN streak + 1 ELSE 0

\* time: self._token comes within 60 s of its expiry
TokenAges ==
    /\ token # 0 /\ token_fresh
    /\ token_fresh' = FALSE
    /\ streak' = 0
    /\ UNCHANGED <<token, token_cache, minted, gpc, headers, attempt, result, calls,
                   statuses, refreshes>>

\* time: the Redis key expires
CacheExpires ==
    /\ token_cache # 0
    /\ token_cache' = 0
    /\ streak' = 0
    /\ UNCHANGED <<token, token_fresh, minted, gpc, headers, attempt, result, calls,
                   statuses, refreshes>>

\* another process fetches a token and stores it under the Redis key
OtherProcessFetches ==
    /\ minted < MaxTokens
    /\ minted' = minted + 1
    /\ token_cache' = minted + 1
    /\ UNCHANGED <<token, token_fresh, gpc, headers, attempt, result, calls,
                   statuses, refreshes, streak>>

NextGateway ==
    \/ \E fetch_ok \in BOOLEAN : execute_tool(fetch_ok) /\ UNCHANGED restG
    \/ \E answer \in Answers, fetch_ok \in BOOLEAN :
          execute_request(answer, fetch_ok) /\ UNCHANGED restG
    \/ TokenAges /\ UNCHANGED restG
    \/ CacheExpires /\ UNCHANGED restG
    \/ OtherProcessFetches /\ UNCHANGED restG

(***************************************************************************)
(* Part 7: the token of several gateway processes, openapi_bridge.py       *)
(* _get_valid_token, _fetch_fresh_token, _invalidate_token, one action per *)
(* await.  tpc of a process:                                               *)
(*   idle  -> not inside _get_valid_token                                  *)
(*   get   -> about to GET TOKEN_CACHE_KEY (line 66)                       *)
(*   post  -> about to POST to the auth endpoint (line 88)                 *)
(*   setex -> about to SETEX TOKEN_CACHE_KEY (line 103)                    *)
(***************************************************************************)
InitToken ==
    /\ tpc = [p \in Gateways |-> "idle"]
    /\ self_token = [p \in Gateways |-> 0]
    /\ fetchers = {}

\* _get_valid_token line 61: self._token is None or stale, go to Redis
NeedToken(p) ==
    /\ tpc[p] = "idle" /\ self_token[p] = 0
    /\ tpc' = [tpc EXCEPT ![p] = "get"]
    /\ UNCHANGED <<self_token, fetchers, token_cache, minted>>

\* _get_valid_token lines 64-72: the cached token is taken; a miss or a
\* Redis error leads to _fetch_fresh_token
GetCached(p, redis_ok) ==
    /\ tpc[p] = "get"
    /\ IF redis_ok /\ token_cache # 0
       THEN /\ self_token' = [self_token EXCEPT ![p] = token_cache]
            /\ tpc' = [tpc EXCEPT ![p] = "idle"]
       ELSE /\ tpc' = [tpc EXCEPT ![p] = "post"]
            /\ UNCHANGED self_token
    /\ UNCHANGED <<fetchers, token_cache, minted>>

\* _fetch_fresh_token lines 87-98: the POST; a 200 hands out a new token,
\* anything else raises
FetchFresh(p, fetch_ok) ==
    /\ tpc[p] = "post"
    /\ IF fetch_ok
       THEN /\ minted < MaxTokens
            /\ minted' = minted + 1
            /\ self_token' = [self_token EXCEPT ![p] = minted + 1]
            /\ fetchers' = fetchers \cup {p}
            /\ tpc' = [tpc EXCEPT ![p] = "setex"]
       ELSE /\ tpc' = [tpc EXCEPT ![p] = "idle"]
            /\ UNCHANGED <<minted, self_token, fetchers>>
    /\ UNCHANGED token_cache

\* _fetch_fresh_token lines 101-105: SETEX of the new token; a Redis error
\* is swallowed
CacheToken(p, redis_ok) ==
    /\ tpc[p] = "setex"
    /\ token_cache' = IF redis_ok THEN self_token[p] ELSE token_cache
    /\ tpc' = [tpc EXCEPT ![p] = "idle"]
    /\ UNCHANGED <<self_token, fetchers, minted>>

\* _invalidate_token after a 401: self._token = None, DELETE of the key
InvalidateToken(p) ==
    /\ tpc[p] = "idle" /\ self_token[p] # 0
    /\ self_token' = [self_token EXCEPT ![p] = 0]
    /\ token_cache' = 0
    /\ fetchers' = {}
    /\ tpc' = [tpc EXCEPT ![p] = "get"]
    /\ UNCHANGED minted

NextToken ==
    \/ \E p \in Gateways : NeedToken(p) /\ UNCHANGED restT
    \/ \E p \in Gateways, redis_ok \in BOOLEAN : GetCached(p, redis_ok) /\ UNCHANGED restT
    \/ \E p \in Gateways, fetch_ok \in BOOLEAN : FetchFresh(p, fetch_ok) /\ UNCHANGED restT
    \/ \E p \in Gateways, redis_ok \in BOOLEAN : CacheToken(p, redis_ok) /\ UNCHANGED restT
    \/ \E p \in Gateways : InvalidateToken(p) /\ UNCHANGED restT

(***************************************************************************)
(* Part 8: ingestion of one OpenAPI document, tool_registry.py             *)
(* _process_spec, _generate_op_id                                          *)
(***************************************************************************)
\* the operations a document can hold: with or without an operationId, on one
\* of two paths that differ in punctuation only
OperationIds == {"", "get_a_b", "post_Batch"}
Paths == {"/a-b", "/a_b"}
Operations == [operationId : OperationIds, path : Paths]

RECURSIVE SeqsUpTo(_, _)
SeqsUpTo(S, n) ==
    IF n = 0 THEN {<<>>}
    ELSE LET shorter == SeqsUpTo(S, n - 1)
         IN shorter \cup {Append(q, x) : q \in {t \in shorter : Len(t) = n - 1}, x \in S}

InitIngest ==
    /\ ipc = "idle"
    /\ spec_paths = <<>>
    /\ pidx = 0
    /\ built = EmptyMap
    /\ stored_first = EmptyMap

\* re.sub(r"[^a-zA-Z0-9]", "_", path), re.sub(r"_+", "_", ...).strip("_")
CleanPath(path) == CASE path = "/a-b" -> "a_b"
                     [] path = "/a_b" -> "a_b"

\* f"{method.lower()}_{clean}" for the method get
MethodAndPath(clean) == CASE clean = "a_b" -> "get_a_b"

\* _generate_op_id: the operationId, else method and cleaned path
generate_op_id(o) ==
    IF o.operationId # "" THEN o.operationId
    ELSE MethodAndPath(CleanPath(o.path))

\* _load_swagger_direct lines 450-456: a fetched document goes to _process_spec
ProcessSpec(doc) ==
    /\ ipc = "idle"
    /\ doc # <<>>
    /\ spec_paths' = doc
    /\ pidx' = 1
    /\ ipc' = "parsing"
    /\ stored_first' = EmptyMap
    /\ UNCHANGED built

\* _process_spec lines 502-523: one operation of the document
ProcessOperation ==
    /\ ipc = "parsing"
    /\ pidx <= Len(spec_paths)
    /\ LET o == spec_paths[pidx]
           op_id == generate_op_id(o)
       IN IF is_blacklisted(op_id, o.path)
          THEN UNCHANGED <<built, stored_first>>
          ELSE /\ built' = [k \in DOMAIN built \cup {op_id} |->
                               IF k = op_id THEN o ELSE built[k]]
               /\ stored_first' = [k \in DOMAIN stored_first \cup {op_id} |->
                               IF k \in DOMAIN stored_first THEN stored_first[k] ELSE o]
    /\ pidx' = pidx + 1
    /\ UNCHANGED <<ipc, spec_paths>>

\* _process_spec returns; lines 458-465: is_ready = True, return True
ProcessSpecReturns ==
    /\ ipc = "parsing"
    /\ pidx > Len(spec_paths)
    /\ ipc' = "idle"
    /\ UNCHANGED <<spec_paths, pidx, built, stored_first>>

NextIngest ==
    \/ \E doc \in SeqsUpTo(Operations, MaxOps) : ProcessSpec(doc) /\ UNCHANGED restI
    \/ ProcessOperation /\ UNCHANGED restI
    \/ ProcessSpecReturns /\ UNCHANGED restI

(***************************************************************************)
(* Part 9: build cycles, tool_registry.py start_auto_update: load_swagger  *)
(* followed by generate_embeddings, on the registries and files of part 3. *)
(* bpc of a registry:                                                      *)
(*   idle    -> between two cycles         load   -> _leader_load begins   *)
(*   fetch   -> _load_swagger_direct       save   -> _save_cache_atomic    *)
(*   saving  -> inside _write_cache_atomic release -> the finally block    *)
(*   wait    -> _follower_wait             embed  -> generate_embeddings   *)
(***************************************************************************)
NoSearch == {"-"}

InitBuild ==
    /\ bpc = [r \in Regs |-> "idle"]
    /\ holder = "none"
    /\ cycles = [r \in Regs |-> 0]
    /\ had = [r \in Regs |-> {}]
    /\ again = {}
    /\ before = [r \in Regs |-> {}]
    /\ last_search = [r \in Regs |-> NoSearch]
    /\ died = {}
    /\ produced = [r \in Regs |-> {}]

\* the descriptor source with every operation, and the documents it can
\* yield from one cycle to the next as operations are withdrawn from the API
Source == [k \in OpIds |-> "d1"]
Sources == {[k \in D |-> Source[k]] : D \in SUBSET OpIds}

\* _embedding_search lines 786-797: the operations a search can return are
\* those of tools_map that have a vector in embeddings_map
Searchable(r) == DOMAIN tools_map[r] \cap DOMAIN embeddings_map[r]

\* history: the operations that have had a vector in this process
Had(r) == had[r] \cup DOMAIN embeddings_map'[r]

\* start_auto_update line 852 and load_swagger lines 380-403: SET NX decides
\* between _leader_load and _follower_wait
StartCycle(r) ==
    /\ bpc[r] = "idle"
    /\ cycles[r] < MaxCycles
    /\ cycles' = [cycles EXCEPT ![r] = @ + 1]
    /\ IF SetNx(holder # "none")
       THEN holder' = r /\ bpc' = [bpc EXCEPT ![r] = "load"]
       ELSE holder' = holder /\ bpc' = [bpc EXCEPT ![r] = "wait"]
    /\ before' = [before EXCEPT ![r] = Searchable(r)]
    /\ last_search' = [last_search EXCEPT ![r] = NoSearch]
    /\ UNCHANGED <<had, again, died, produced, svars>>

\* _leader_load line 408: _load_cache
LeaderLoadCache(r, restored) ==
    /\ bpc[r] = "load"
    /\ LoadCache(r, restored)
    /\ bpc' = [bpc EXCEPT ![r] = "fetch"]
    /\ had' = [had EXCEPT ![r] = Had(r)]
    /\ UNCHANGED <<holder, cycles, again, before, last_search, died, produced>>

\* _leader_load line 411, _load_swagger_direct: the document is fetched and
\* every operation of it stored, or the fetch fails and nothing is saved
LoadSwaggerDirect(r, fetched, doc) ==
    /\ bpc[r] = "fetch"
    /\ IF fetched
       THEN /\ tools_map' = [tools_map EXCEPT ![r] =
                   [k \in DOMAIN @ \cup DOMAIN doc |->
                       IF k \in DOMAIN doc THEN doc[k] ELSE @[k]]]
            /\ produced' = [produced EXCEPT ![r] = DOMAIN doc]
            /\ bpc' = [bpc EXCEPT ![r] = "save"]
       ELSE /\ UNCHANGED <<tools_map, produced>>
            /\ bpc' = [bpc EXCEPT ![r] = "release"]
    /\ UNCHANGED <<embeddings_map, live, backup, tmp, spc, readDoc>>
    /\ UNCHANGED <<holder, cycles, had, again, before, last_search, died>>

\* _leader_load lines 413-415: _save_cache_atomic, temporary file written
LeaderSaveStart(r) ==
    /\ bpc[r] = "save"
    /\ SaveStart(r)
    /\ bpc' = [bpc EXCEPT ![r] = "saving"]
    /\ UNCHANGED <<holder, cycles, had, again, before, last_search, died, produced>>

\* _write_cache_atomic lines 648-652: the backup copy
LeaderSaveBackup(r, copied) ==
    /\ bpc[r] = "saving"
    /\ SaveBackup(r, copied)
    /\ UNCHANGED <<bpc, holder, cycles, had, again, before, last_search, died, produced>>

\* _write_cache_atomic lines 655-665: the rename, or the except branch
LeaderSaveEnd(r, raised) ==
    /\ bpc[r] = "saving"
    /\ IF raised THEN SaveError(r) ELSE SaveRename(r)
    /\ bpc' = [bpc EXCEPT ![r] = "release"]
    /\ UNCHANGED <<holder, cycles, had, again, before, last_search, died, produced>>

\* load_swagger lines 397-400: the finally block deletes LOCK_KEY and clears
\* _is_leader; load_swagger returns
LeaderRelease(r) ==
    /\ bpc[r] = "release"
    /\ holder' = "none"
    /\ bpc' = [bpc EXCEPT ![r] = "embed"]
    /\ produced' = [produced EXCEPT ![r] = {}]
    /\ UNCHANGED <<cycles, had, again, before, last_search, died, svars>>

\* _follower_wait lines 421-435: the snapshot is loaded at once when it holds
\* tools, else in a pass that finds the key absent
FollowerLoad(r, restored) ==
    /\ bpc[r] = "wait"
    /\ holder = "none" \/ (Usable(live) \/ Usable(backup))
    /\ LoadCache(r, restored)
    /\ bpc' = [bpc EXCEPT ![r] =
                  IF readDoc'[r] # NoSnapshot
                     /\ (holder = "none" \/ tools_map'[r] # EmptyMap)
                  THEN "embed" ELSE "wait"]
    /\ had' = [had EXCEPT ![r] = Had(r)]
    /\ UNCHANGED <<holder, cycles, again, before, last_search, died, produced>>

\* _follower_wait lines 438-439: the wait is given up, load_swagger returns
\* False
FollowerGiveUp(r) ==
    /\ bpc[r] = "wait"
    /\ bpc' = [bpc EXCEPT ![r] = "embed"]
    /\ UNCHANGED <<holder, cycles, had, again, before, last_search, died, produced, svars>>

\* start_auto_update line 853, generate_embeddings: every operation without
\* a vector is sent to the embedding backend, which answers or fails; no
\* snapshot is written, _is_leader being False after load_swagger
GenerateEmbeddings(r, failing) ==
    /\ bpc[r] = "embed"
    /\ LET missing == DOMAIN tools_map[r] \ DOMAIN embeddings_map[r]
           vec == CHOOSE v \in Vecs : TRUE
       IN /\ failing \subseteq missing
          /\ embeddings_map' = [embeddings_map EXCEPT ![r] =
                [k \in DOMAIN @ \cup (missing \ failing) |->
                    IF k \in DOMAIN @ THEN @[k] ELSE vec]]
          /\ again' = again \cup {<<r, k>> : k \in missing \cap had[r]}
    /\ had' = [had EXCEPT ![r] = Had(r)]
    /\ bpc' = [bpc EXCEPT ![r] = "idle"]
    /\ UNCHANGED <<tools_map, live, backup, tmp, spc, readDoc>>
    /\ UNCHANGED <<holder, cycles, before, last_search, died, produced>>

\* a search of the same process while its cycle is under way
SearchDuringBuild(r) ==
    /\ bpc[r] \notin {"idle", "embed"}
    /\ last_search' = [last_search EXCEPT ![r] = Searchable(r)]
    /\ UNCHANGED <<bpc, holder, cycles, had, again, before, died, produced, svars>>

\* (mutant) the document is dumped straight into the cache file
InterruptedDumpInPlace(t, l) == [tmp |-> t, live |-> Corrupt]

\* _write_cache_atomic lines 642-645 cut short: the temporary file holds a
\* part of the document, the cache file is not touched
InterruptedDump(t, l) == [tmp |-> Corrupt, live |-> l]

\* the process dies inside load_swagger, with the write of the temporary
\* file cut short or not; its maps are gone, LOCK_KEY stays until its lease
\* is over
LeaderDies(r, partial) ==
    /\ bpc[r] \in {"load", "fetch", "save", "saving", "release"}
    /\ partial => bpc[r] = "save" /\ tools_map[r] # EmptyMap
    /\ tmp' = IF partial THEN InterruptedDump(tmp, live).tmp ELSE tmp
    /\ live' = IF partial THEN InterruptedDump(tmp, live).live ELSE live
    /\ tools_map' = [tools_map EXCEPT ![r] = EmptyMap]
    /\ embeddings_map' = [embeddings_map EXCEPT ![r] = EmptyMap]
    /\ spc' = [spc EXCEPT ![r] = "idle"]
    /\ readDoc' = [readDoc EXCEPT ![r] = NoEntry]
    /\ bpc' = [bpc EXCEPT ![r] = "idle"]
    /\ had' = [had EXCEPT ![r] = {}]
    /\ died' = died \cup {r}
    /\ produced' = [produced EXCEPT ![r] = {}]
    /\ UNCHANGED <<backup, holder, cycles, again, before, last_search>>

\* Redis drops LOCK_KEY of a dead leader when its lease is over
DeadLeaseExpires ==
    /\ holder # "none"
    /\ bpc[holder] \notin {"load", "fetch", "save", "saving", "release"}
    /\ holder' = "none"
    /\ UNCHANGED <<bpc, cycles, had, again, before, last_search, died, produced, svars>>

\* the process is restarted between two cycles
RestartProcess(r) ==
    /\ bpc[r] = "idle"
    /\ Restart(r)
    /\ had' = [had EXCEPT ![r] = {}]
    /\ UNCHANGED <<bpc, holder, cycles, again, before, last_search, died, produced>>

NextBuild ==
    \/ \E r \in Regs : StartCycle(r) /\ UNCHANGED restB
    \/ \E r \in Regs, restored \in BOOLEAN : LeaderLoadCache(r, restored) /\ UNCHANGED restB
    \/ \E r \in Regs, fetched \in BOOLEAN, doc \in Sources :
          LoadSwaggerDirect(r, fetched, doc) /\ UNCHANGED restB
    \/ \E r \in Regs : LeaderSaveStart(r) /\ UNCHANGED restB
    \/ \E r \in Regs, copied \in BOOLEAN : LeaderSaveBackup(r, copied) /\ UNCHANGED restB
    \/ \E r \in Regs, raised \in BOOLEAN : LeaderSaveEnd(r, raised) /\ UNCHANGED restB
    \/ \E r \in Regs : LeaderRelease(r) /\ UNCHANGED restB
    \/ \E r \in Regs, restored \in BOOLEAN : FollowerLoad(r, restored) /\ UNCHANGED restB
    \/ \E r \in Regs : FollowerGiveUp(r) /\ UNCHANGED restB
    \/ \E r \in Regs, failing \in SUBSET OpIds : GenerateEmbeddings(r, failing) /\ UNCHANGED restB
    \/ \E r \in Regs : SearchDuringBuild(r) /\ UNCHANGED restB
    \/ \E r \in Regs : RestartProcess(r) /\ UNCHANGED restB
    \/ \E r \in Regs, partial \in BOOLEAN : LeaderDies(r, partial) /\ UNCHANGED restB
    \/ DeadLeaseExpires /\ UNCHANGED restB

(***************************************************************************)
(* Part 10: the main loop of the worker, worker.py start lines 160-204     *)
(* mpc: "running" in the loop, "stopped" after shutdown(), "exited" after  *)
(* sys.exit(1), "crashed" when an exception left start()                   *)
(***************************************************************************)
InitLoop ==
    /\ mpc = "running"
    /\ running = TRUE
    /\ consecutive_errors = 0
    /\ loops = 0
    /\ failed_run = 0

\* line 183: asyncio.gather(*tasks, return_exceptions=True) hands the
\* exceptions of the tasks back as values and raises none of them
GatherRaises(tasks_ok) == FALSE

\* one pass of the while loop: the two heartbeat SETEX calls outside the try,
\* then the tasks of the tick
MainLoopTick(heartbeat_ok, tasks_ok) ==
    /\ mpc = "running"
    /\ running
    /\ loops < MaxLoops
    /\ loops' = loops + 1
    /\ failed_run' = IF heartbeat_ok /\ tasks_ok THEN 0 ELSE failed_run + 1
    /\ UNCHANGED running
    /\ IF ~heartbeat_ok
       THEN \* lines 164-165 raise: the exception leaves start()
            /\ mpc' = "crashed"
            /\ UNCHANGED consecutive_errors
       ELSE IF GatherRaises(tasks_ok)
       THEN \* lines 192-202
            /\ consecutive_errors' = consecutive_errors + 1
            /\ mpc' = IF consecutive_errors' >= panic_threshold THEN "exited" ELSE mpc
       ELSE \* lines 185-190
            /\ consecutive_errors' = 0
            /\ UNCHANGED mpc

\* SIGTERM / SIGINT: the handler clears worker.running
Signal ==
    /\ mpc = "running" /\ running
    /\ running' = FALSE
    /\ UNCHANGED <<mpc, consecutive_errors, loops, failed_run>>

\* line 204: the loop condition fails, shutdown()
Shutdown ==
    /\ mpc = "running" /\ ~running
    /\ mpc' = "stopped"
    /\ UNCHANGED <<running, consecutive_errors, loops, failed_run>>

NextLoop ==
    \/ \E heartbeat_ok \in BOOLEAN, tasks_ok \in BOOLEAN :
          MainLoopTick(heartbeat_ok, tasks_ok) /\ UNCHANGED restM
    \/ Signal /\ UNCHANGED restM
    \/ Shutdown /\ UNCHANGED restM

(***************************************************************************)
(* Part 11: the served index of one registry, tool_registry.py             *)
(* _process_spec, generate_embeddings, _load_cache_file and                *)
(* _embedding_search, on the registry of part 4 with the path and the      *)
(* content of each descriptor kept                                         *)
(***************************************************************************)
DenyOps   == {"get_vehicle", "post_Batch"}
DenyPaths == {"/vehicles", "/vehicles/export"}

\* _get_embedding 723-734: the vector the backend computes from a text
get_embedding(text) == CASE text = "d1" -> <<10, 0>>
                         [] text = "d2" -> <<0, 10>>

\* the tools of a snapshot file with their vectors, as _load_cache_file
\* finds them
CachedTools == {e \in [op : DenyOps, path : DenyPaths, text : Descs,
                       vec : {get_embedding(d) : d \in Descs} \cup {NoVec}] :
                   e.vec \in {get_embedding(e.text), NoVec}}
CacheFiles == {doc \in SeqsUpTo(CachedTools, MaxCached) :
                  /\ doc # <<>>
                  /\ \A i, j \in 1..Len(doc) : doc[i].op = doc[j].op => i = j}

PositionOf(op) == {i \in 1..Len(catalog) : catalog[i].op = op}

\* _process_spec 502-523 for one operation of the document: a deny-listed
\* one is skipped (line 509), any other is stored under its operation id
\* (line 523); embeddings_map is not touched
ProcessTool(op, path, text) ==
    /\ Len(catalog) < MaxTools
    /\ IF is_blacklisted(op, path) THEN UNCHANGED catalog
       ELSE IF PositionOf(op) # {}
       THEN catalog' = [i \in 1..Len(catalog) |->
                          IF catalog[i].op # op THEN catalog[i]
                          ELSE [op |-> op, path |-> path, text |-> text,
                                vec |-> catalog[i].vec]]
       ELSE catalog' = Append(catalog, [op |-> op, path |-> path, text |-> text,
                                        vec |-> NoVec])
    /\ query_vec' = NoVec /\ limit' = -1 /\ found' = <<>>
    /\ UNCHANGED is_ready

\* generate_embeddings 678-706 for one operation: only an operation that is
\* not in embeddings_map is sent to the backend; a failed call leaves it
\* without a vector
GenerateEmbedding(op, ok) ==
    /\ \E i \in PositionOf(op) : catalog[i].vec = NoVec
    /\ catalog' = [i \in 1..Len(catalog) |->
                      IF catalog[i].op = op /\ ok
                      THEN [catalog[i] EXCEPT !.vec = get_embedding(catalog[i].text)]
                      ELSE catalog[i]]
    /\ query_vec' = NoVec /\ limit' = -1 /\ found' = <<>>
    /\ UNCHANGED is_ready

\* _load_cache_file 584-590: embeddings_map becomes that of the file, and
\* the tools of the file that the registry does not hold are added
LoadCacheFile(doc) ==
    LET kept == [i \in 1..Len(catalog) |->
                    [catalog[i] EXCEPT !.vec =
                        IF \E j \in 1..Len(doc) : doc[j].op = catalog[i].op
                        THEN doc[CHOOSE j \in 1..Len(doc) : doc[j].op = catalog[i].op].vec
                        ELSE NoVec]]
        added == SelectSeq(doc, LAMBDA e : PositionOf(e.op) = {})
    IN /\ Len(kept) + Len(added) <= MaxTools
       /\ catalog' = kept \o added
       /\ query_vec' = NoVec /\ limit' = -1 /\ found' = <<>>
       /\ UNCHANGED is_ready

NextIndex ==
    \/ \E op \in DenyOps, path \in DenyPaths, text \in Descs :
          ProcessTool(op, path, text) /\ UNCHANGED restF
    \/ \E op \in DenyOps, ok \in BOOLEAN : GenerateEmbedding(op, ok) /\ UNCHANGED restF
    \/ \E doc \in CacheFiles : LoadCacheFile(doc) /\ UNCHANGED restF
    \/ SetReady /\ UNCHANGED restF
    \/ \E query \in QueryVecs \cup {NoVec}, top_k \in 0..MaxK :
          find_relevant_tools(query, top_k) /\ UNCHANGED restF

(***************************************************************************)
(* Part 12: the batches of generate_embeddings, tool_registry.py 676-721,  *)
(* counted: how many operations are left, how many vectors were computed,  *)
(* how many of them the snapshot holds                                     *)
(***************************************************************************)
InitEmbed ==
    /\ epc = "idle"
    /\ leading = FALSE
    /\ todo = 0
    /\ generated = 0
    /\ persisted = 0

\* lines 677-688: `missing` has n operations; _is_leader is True only while
\* another task of the process is inside the leader section of load_swagger
GenerateStart(n, is_leader_now) ==
    /\ epc = "idle"
    /\ epc' = "loop"
    /\ leading' = is_leader_now
    /\ todo' = n
    /\ generated' = 0
    /\ persisted' = 0

\* line 714: the checkpoint condition, looked at once a batch
CheckpointDue(count) == count % CHECKPOINT_EVERY = 0

\* lines 691-715: one batch of up to EMBEDDING_BATCH_SIZE operations, of
\* which `ok` get their vector, then the checkpoint save
EmbedBatch(ok) ==
    /\ epc = "loop"
    /\ todo > 0
    /\ LET size == IF todo < EMBEDDING_BATCH_SIZE THEN todo ELSE EMBEDDING_BATCH_SIZE
       IN /\ ok <= size
          /\ todo' = todo - size
          /\ generated' = generated + ok
          /\ persisted' = IF leading /\ CheckpointDue(generated') THEN generated'
                          ELSE persisted
    /\ UNCHANGED <<epc, leading>>

\* lines 717-721: the loop is over, the final save
FinalSave ==
    /\ epc = "loop"
    /\ todo = 0
    /\ epc' = "done"
    /\ persisted' = IF leading THEN generated ELSE persisted
    /\ UNCHANGED <<leading, todo, generated>>

\* the process dies between two batches
EmbedCrash ==
    /\ epc = "loop"
    /\ epc' = "crashed"
    /\ UNCHANGED <<leading, todo, generated, persisted>>

\* the next build cycle, or the restart after a crash
EmbedAgain ==
    /\ epc \in {"done", "crashed"}
    /\ epc' = "idle"
    /\ UNCHANGED <<leading, todo, generated, persisted>>

NextEmbed ==
    \/ \E n \in 1..MaxMissing, is_leader_now \in BOOLEAN :
          GenerateStart(n, is_leader_now) /\ UNCHANGED restE
    \/ \E ok \in 0..EMBEDDING_BATCH_SIZE : EmbedBatch(ok) /\ UNCHANGED restE
    \/ FinalSave /\ UNCHANGED restE
    \/ EmbedCrash /\ UNCHANGED restE
    \/ EmbedAgain /\ UNCHANGED restE

(***************************************************************************)
(* Part 13: _load_cache of one process, file access by file access, next   *)
(* to the _write_cache_atomic of another, tool_registry.py 549-567 and     *)
(* 636-665, on the registries and files of part 3.  spc of a loader:       *)
(*   fallback -> the main file did not load     restore -> the backup did  *)
(***************************************************************************)
\* lines 585-590: the maps after a document has been loaded
ApplyDoc(r, doc) ==
    /\ embeddings_map' = [embeddings_map EXCEPT ![r] = LoadedEmbeddings(@, doc)]
    /\ tools_map' = [tools_map EXCEPT ![r] = LoadedTools(@, doc)]
    /\ readDoc' = [readDoc EXCEPT ![r] = doc]

\* _load_cache line 552: _load_cache_file(CACHE_FILE)
LoadMain(r) ==
    /\ spc[r] = "idle"
    /\ IF Usable(live)
       THEN ApplyDoc(r, live) /\ UNCHANGED spc
       ELSE /\ spc' = [spc EXCEPT ![r] = "fallback"]
            /\ UNCHANGED <<tools_map, embeddings_map, readDoc>>
    /\ UNCHANGED <<live, backup, tmp>>

\* lines 556-558: BACKUP_FILE.exists() and _load_cache_file(BACKUP_FILE)
LoadBackup(r) ==
    /\ spc[r] = "fallback"
    /\ IF Usable(backup)
       THEN ApplyDoc(r, backup) /\ spc' = [spc EXCEPT ![r] = "restore"]
       ELSE /\ spc' = [spc EXCEPT ![r] = "idle"]
            /\ readDoc' = [readDoc EXCEPT ![r] = NoSnapshot]
            /\ UNCHANGED <<tools_map, embeddings_map>>
    /\ UNCHANGED <<live, backup, tmp>>

\* lines 560-565: shutil.copy2(BACKUP_FILE, CACHE_FILE) writes what the
\* backup file holds now over the main file; a failed copy is ignored
RestoreMain(r, copied) ==
    /\ spc[r] = "restore"
    /\ live' = IF copied /\ backup # Missing THEN backup ELSE live
    /\ spc' = [spc EXCEPT ![r] = "idle"]
    /\ UNCHANGED <<tools_map, embeddings_map, backup, tmp, readDoc>>

\* one process at a time, the leader, is inside _write_cache_atomic
NextRestore ==
    \/ \E r \in Regs, op \in OpIds, d \in Descs : Ingest(r, op, d) /\ UNCHANGED restS
    \/ \E r \in Regs :
          /\ \A q \in Regs : spc[q] \notin {"tmp", "backed"}
          /\ SaveStart(r) /\ UNCHANGED restS
    \/ \E r \in Regs, copied \in BOOLEAN : SaveBackup(r, copied) /\ UNCHANGED restS
    \/ \E r \in Regs : SaveRename(r) /\ UNCHANGED restS
    \/ \E r \in Regs : LoadMain(r) /\ UNCHANGED restS
    \/ \E r \in Regs : LoadBackup(r) /\ UNCHANGED restS
    \/ \E r \in Regs, copied \in BOOLEAN : RestoreMain(r, copied) /\ UNCHANGED restS
    \/ \E how \in {Missing, Corrupt, Invalid} : CorruptLive(how) /\ UNCHANGED restS

(***************************************************************************)
(* Specifications                                                          *)
(***************************************************************************)
Init == InitQueue /\ InitLock /\ InitSnapshot /\ InitSearch /\ InitOutbound
        /\ InitGateway /\ InitToken /\ InitWait /\ InitIngest /\ InitBuild
        /\ InitLoop /\ InitEmbed

\* a leader that writes and loaders that fall back, on files that get damaged
SpecRestore == Init /\ [][NextRestore]_vars

\* runs of generate_embeddings of any length, with calls that fail
SpecEmbed == Init /\ [][NextEmbed]_vars

\* ingestion, snapshot loads and searches on one registry
SpecIndex == Init /\ [][NextIndex]_vars

\* the main loop against a store and tasks that fail or work in any order
SpecLoop == Init /\ [][NextLoop]_vars

\* build cycles of two registries on the shared lock and files
SpecBuild == Init /\ [][NextBuild]_vars

\* ingestion of every small document, one after the other
SpecIngest == Init /\ [][NextIngest]_vars

\* the follower's wait pass by pass, with a leader that builds, fails or
\* dies; a follower that is not killed goes on running
SpecWait == Init /\ [][NextWait]_vars
            /\ \A p \in Waiters : WF_vars(FollowerStep(p) /\ UNCHANGED restW)

\* several processes obtaining, caching and invalidating the shared token
SpecToken == Init /\ [][NextToken]_vars

\* gateway calls against every sequence of answers of the remote API and
\* of the auth server
SpecGateway == Init /\ [][NextGateway]_vars

\* the leadership lock: every interleaving of the processes' load_swagger
\* calls with process death and lease expiry
SpecLock == Init /\ [][NextLock]_vars

\* the snapshot files: registries that ingest, embed, persist, load and
\* restart, on files that can be damaged
SpecSnapshot == Init /\ [][NextSnapshot]_vars

\* semantic search over every small registry content
SpecSearch == Init /\ [][NextSearch]_vars

\* outbound messages, failed sends, scheduled retries and two pollers on
\* hosts whose clocks may differ
SpecOutbound == Init /\ [][NextOutbound]_vars

SpecOutboundFaulty == Init /\ [][NextOutboundFaulty]_vars

\* the steps of the transaction coroutines
Transaction ==
    \/ \E t \in inflight : CheckAndLimit(t)
    \/ \E t \in inflight, thrown \in BOOLEAN : HandleBusinessLogic(t, thrown)
    \/ \E t \in inflight : AckSuccess(t)
    \/ \E t \in inflight : DelSuccess(t)
    \/ \E t \in inflight : StoreDeadLetter(t)
    \/ \E t \in inflight : AckFailure(t)
    \/ \E t \in inflight : DelFailure(t)

\* Workers, stalled-entry recovery and process death: every interleaving of
\* the transaction with crashes and reclaims.
NextQueue ==
    \/ \E w \in Workers : StartWorker(w) /\ UNCHANGED restQ
    \/ \E s \in Senders, x \in Texts : enqueue_inbound(s, x) /\ UNCHANGED restQ
    \/ \E w \in Workers : ProcessInboundBatch(w) /\ UNCHANGED restQ
    \/ \E w \in Workers : RecoverStalledMessages(w) /\ UNCHANGED restQ
    \/ Transaction /\ UNCHANGED restQ
    \/ \E d \in {MIN_IDLE_TIME \div 2, MIN_IDLE_TIME} : TimePasses(d) /\ UNCHANGED restQ
    \/ \E w \in Workers : Crash(w) /\ UNCHANGED restQ

SpecQueue == Init /\ [][NextQueue]_vars

\* Workers that stay up and keep reading: every worker gets started, a
\* running worker's loop keeps calling _process_inbound_batch and a started
\* transaction coroutine runs on.
NextDeliver ==
    \/ \E w \in Workers : StartWorker(w) /\ UNCHANGED restQ
    \/ \E s \in Senders, x \in Texts : enqueue_inbound(s, x) /\ UNCHANGED restQ
    \/ \E w \in Workers : ProcessInboundBatch(w) /\ UNCHANGED restQ
    \/ Transaction /\ UNCHANGED restQ

SpecDeliver ==
    /\ Init /\ [][NextDeliver]_vars
    /\ \A w \in Workers : WF_vars(StartWorker(w) /\ UNCHANGED restQ)
    /\ \A w \in Workers : WF_vars(ProcessInboundBatch(w) /\ UNCHANGED restQ)
    /\ WF_vars(Transaction /\ UNCHANGED restQ)

\* The same, with Redis calls of the transaction that raise.
NextFaulty ==
    \/ NextQueue
    \/ \E t \in inflight : StoreError(t) /\ UNCHANGED restQ

SpecFaulty == Init /\ [][NextFaulty]_vars

\* The retry cycle: failed transactions feed the dead-letter list and
\* auto_heal_dlq feeds the stream.
NextRetry ==
    \/ \E w \in Workers : StartWorker(w) /\ UNCHANGED restQ
    \/ \E s \in Senders, x \in Texts : enqueue_inbound(s, x) /\ UNCHANGED restQ
    \/ \E w \in Workers : ProcessInboundBatch(w) /\ UNCHANGED restQ
    \/ Transaction /\ UNCHANGED restQ
    \/ \E w \in Workers : AutoHealPop(w) /\ UNCHANGED restQ
    \/ \E w \in Workers : AutoHealRoute(w) /\ UNCHANGED restQ
    \/ \E w \in Workers, stored \in BOOLEAN : AutoHealError(w, stored) /\ UNCHANGED restQ

SpecRetry == Init /\ [][NextRetry]_vars

\* auto_heal_dlq alone, on a dead-letter list longer than one batch
NextHeal ==
    \/ \E w \in Workers : StartWorker(w) /\ UNCHANGED restQ
    \/ \E kind \in DlqKinds : DlqArrive(kind) /\ UNCHANGED restQ
    \/ \E w \in Workers : AutoHealPop(w) /\ UNCHANGED restQ
    \/ \E w \in Workers : AutoHealRoute(w) /\ UNCHANGED restQ

SpecHeal == Init /\ [][NextHeal]_vars

(***************************************************************************)
(* Claims about the inbound work queue                                     *)
(***************************************************************************)
Has(i, what) == <<i, what>> \in outcomes
IssuedIds == 1..(nextId - 1)
Handled(i) == Has(i, "ok") \/ Has(i, "limited") \/ Has(i, "blank") \/ Has(i, "dlq")

C2_StoreStep ==
    \A t \in inflight :
        (t.pc = "failed" /\ t \notin inflight' /\ Moved(t, "f_stored") \in inflight')
        => /\ dlq' = Append(dlq, [original_payload |-> t.p, error |-> "error"])
           /\ pel' = pel /\ stream' = stream

C2_Completion ==
    \A t \in inflight :
        (t.pc = "f_acked" /\ t \notin inflight' /\ wstate'[t.w] = "running"
           /\ faults' = faults)
        => t.id \notin {x.id : x \in pel'} /\ t.id \notin {e.id : e \in stream'}

C2_FailurePathOrder ==
    /\ [](\A t \in inflight :
            /\ t.pc \in {"f_stored", "f_acked"} => Has(t.id, "dlq")
            /\ t.pc = "f_acked" => t.id \notin PelIds /\ t.id \in ackLog)
    /\ [][C2_StoreStep /\ C2_Completion /\ (\A i \in ackLog : i \notin {x.id : x \in pel'})]_vars

\* a failed entry went through the whole failure path
C2_Witness ==
    \E i \in IssuedIds :
        /\ Has(i, "dlq") /\ ~Has(i, "ok") /\ ~Has(i, "limited") /\ ~Has(i, "blank")
        /\ i \in ackLog /\ i \notin StreamIds /\ i \notin PelIds
        /\ \E k \in 1..Len(dlq) : dlq[k].original_payload.message_id \in 1..MaxMsgs

\* every retry count the queue holds: stream entries, running transactions,
\* dead-letter entries (listed, popped, permanent)
RetryCounts ==
    {int(e.p.retry_count) : e \in stream}
    \cup {int(t.p.retry_count) : t \in inflight}
    \cup {int(dlq[k].original_payload.retry_count) : k \in 1..Len(dlq)}
    \cup {int(permanent[k].original_payload.retry_count) : k \in 1..Len(permanent)}
    \cup {int(heal[w].cur.original_payload.retry_count) : w \in {v \in Workers : heal[v].cur # NoEntry}}

\* a step of auto_heal_dlq that appends entry e to the stream: e is the entry
\* some healer had popped, its retry count was below 3 and is now one higher
C3_Requeue ==
    \A e \in stream' \ stream :
        e.p.retry_count # "0" =>
            \E w \in Workers :
                /\ heal[w].cur # NoEntry /\ heal'[w].cur = NoEntry
                /\ int(heal[w].cur.original_payload.retry_count) < MAX_RETRIES
                /\ int(e.p.retry_count) = int(heal[w].cur.original_payload.retry_count) + 1
                /\ e.p = [heal[w].cur.original_payload EXCEPT !.retry_count = e.p.retry_count]
                /\ permanent' = permanent

\* permanent storage is only appended to: nothing is taken out of it
C3_PermanentKept ==
    /\ Len(permanent') >= Len(permanent)
    /\ \A k \in 1..Len(permanent) : permanent'[k] = permanent[k]

\* C3: no retry count exceeds 3; auto-heal re-queues an entry only when its
\* retry count is below 3 and raises it by exactly 1; an entry moved to
\* permanent storage stays there and is never appended to the stream again.
C3_BoundedRetries ==
    /\ [](\A n \in RetryCounts : n <= MAX_RETRIES)
    /\ [][C3_Requeue /\ C3_PermanentKept]_vars

\* an entry was re-queued three times and then moved to permanent storage
C3_Witness ==
    /\ Len(permanent) = 1
    /\ permanent[1].original_payload.retry_count = "3"
    /\ hist[permanent[1].original_payload.message_id].heals = MAX_RETRIES + 1

StreamOf(m) == {e \in stream : e.p.message_id = m}
DlqOf(m) == {k \in 1..Len(dlq) : dlq[k].original_payload.message_id = m}
PermanentOf(m) == {k \in 1..Len(permanent) : permanent[k].original_payload.message_id = m}
HeldOf(m) == {w \in Workers : heal[w].cur # NoEntry /\ heal[w].cur.original_payload.message_id = m}
\* every transaction of the message has thrown: it has failed `fails` times
\* and auto-heal has routed it `heals` times, with no Redis call raising
Cycle(m, fails, heals) ==
    /\ hist[m].passes = 0 /\ faults = 0
    /\ hist[m].fails = fails /\ hist[m].heals = heals

\* C4 (as stated): after the first failure, one auto-heal and two more failed
\* cycles (three failures, three auto-heal routings) the message is in
\* permanent storage.
C4_PermanentAfterThreeCycles ==
    \A m \in 1..MaxMsgs : Cycle(m, 3, 3) => PermanentOf(m) # {}

C4_States ==
    \A m \in 1..MaxMsgs :
        /\ hist[m].passes = 0 /\ faults = 0
              => hist[m].fails <= MAX_RETRIES + 1 /\ hist[m].heals <= hist[m].fails
        /\ (Cycle(m, 1, 0) /\ HeldOf(m) = {})
              => /\ Cardinality(DlqOf(m)) = 1
                 /\ \A k \in DlqOf(m) : dlq[k].original_payload.retry_count = "0"
                 /\ PermanentOf(m) = {}
        /\ Cycle(m, 1, 1)
              => /\ \E e \in StreamOf(m) : e.p.retry_count = "1"
                 /\ \A e \in StreamOf(m) : e.p.retry_count \in {"0", "1"}
                 /\ DlqOf(m) = {} /\ PermanentOf(m) = {}
        /\ Cycle(m, 3, 3)
              => /\ \E e \in StreamOf(m) : e.p.retry_count = "3"
                 /\ DlqOf(m) = {} /\ PermanentOf(m) = {}
        /\ Cycle(m, 4, 4)
              => /\ Cardinality(PermanentOf(m)) = 1
                 /\ \A k \in PermanentOf(m) : permanent[k].original_payload.retry_count = "3"
                 /\ DlqOf(m) = {} /\ HeldOf(m) = {}

\* C4 (amended): for a message whose processing always throws: after the
\* first failure the dead-letter list holds exactly one entry for it, with
\* retry count 0; one auto-heal re-queues it with retry count 1; after two
\* more failed cycles it is in the stream again with retry count 3, and only
\* the fourth failure and the fourth auto-heal put it in permanent storage,
\* after which nothing is appended to the stream for it.
C4_RetryScenario ==
    /\ []C4_States
    /\ [][\A m \in 1..MaxMsgs : PermanentOf(m) # {} => StreamOf(m)' \subseteq StreamOf(m)]_vars

\* four failures and four auto-heal routings, the message in permanent storage
C4_Witness ==
    \E m \in 1..MaxMsgs : Cycle(m, 4, 4) /\ PermanentOf(m) # {} /\ StreamOf(m) = {}

\* C5: a recovery scan claims exactly the pending entries that have been idle
\* for at least 5 minutes (up to 10), whoever owned them, hands them to the
\* scanning worker and starts the same transaction on each; an entry that was
\* acknowledged is not pending and is never claimed.
C5_ScanStep ==
    LET claimed == {t \in inflight' \ inflight : IsClaim(t) /\ t.pc = "start"}
        stalled == {x \in pel : x.idle >= MIN_IDLE_TIME /\ x.id \in StreamIds}
    IN /\ \A t \in claimed :
            /\ \E x \in stalled : x.id = t.id /\ x.owner = t.src.from
            /\ t.id \notin ackLog
            /\ ~t.orphan /\ t.p = EntryOf(t.id).p
            /\ [id |-> t.id, owner |-> t.w, idle |-> 0] \in pel'
       /\ (claimed # {} /\ Cardinality(stalled) <= CLAIM_COUNT)
            => \A x \in stalled : \E t \in claimed : t.id = x.id

Leading == {p \in Procs : lpc[p] = "leader" /\ is_leader[p]}
\* the processes that have taken the leader path, and those past SET NX
Leaders == {acqLog[i].p : i \in 1..Len(acqLog)}
Decided == Leaders \cup {p \in Procs : lpc[p] \in {"follower", "polling", "returned"}}
\* leaders whose finally block has run
Released == {p \in Leaders : lpc[p] = "returned"}
\* process p takes the SET NX step
SetStep(p) == lpc[p] = "call" /\ lpc'[p] \in {"leader", "follower"}

\* C6: at every moment at most one process holds the leadership lock and
\* runs the leader build.
C6_AtMostOneLeader == Cardinality(Leading) <= 1

\* C7 (as stated): of the processes that called load_swagger while the lock
\* was free, exactly one runs the leader path and all others the follower path.
C7_ExactlyOneLeader ==
    (\A p \in Procs : p \in Decided) => Cardinality(Leaders) = 1

\* C7 (amended): SET NX makes a process leader exactly when the key does not
\* exist at that moment: until the first leader's key is deleted or expires,
\* it is the only leader and every other process that has reached Redis is a
\* follower.
C7_FirstLeaderAlone ==
    (/\ acqLog # <<>>
     /\ Released = {}
     /\ now < acqLog[1].at + LOCK_TIMEOUT)
    => /\ Len(acqLog) = 1
       /\ lock # NoLock /\ lock.owner = acqLog[1].p
       /\ \A p \in Procs \ {acqLog[1].p} :
             /\ ~is_leader[p]
             /\ lpc[p] \in {"idle", "call", "follower", "polling", "returned", "killed"}

C7_LeaderByKeyAbsence ==
    /\ []C7_FirstLeaderAlone
    /\ [][\A p \in Procs : SetStep(p) =>
            /\ (lock = NoLock) => /\ lpc'[p] = "leader" /\ is_leader'[p]
                                  /\ lock' = [owner |-> p, expires |-> now + LOCK_TIMEOUT]
            /\ (lock # NoLock) => lpc'[p] = "follower" /\ ~is_leader'[p] /\ lock' = lock]_vars

\* three processes called while the lock was free: one leads, two follow
C7_Witness ==
    /\ Cardinality(Leaders) = 1
    /\ \A p \in Procs \ Leaders : lpc[p] \in {"follower", "polling"}
    /\ \E p \in Leaders : lpc[p] = "leader"
    /\ Cardinality(Procs \ Leaders) = Cardinality(Procs) - 1

\* C8: after a leader was killed before releasing the lock, nobody acquires
\* the lock before 900 seconds have passed since the killed leader's SET.
C8_DeadLeaderLockKept ==
    \A p \in Procs :
        killedAs[p] # NoEntry =>
            \A j \in (killedAs[p].n + 1)..Len(acqLog) :
                acqLog[j].at >= killedAs[p].at + LOCK_TIMEOUT

\* C9: when the leader's build raised, load_swagger returns False, and the
\* step that returns leaves the key deleted and _is_leader cleared; an
\* acquisition attempt made while the key is absent succeeds.
C9_ReleaseOnFailure ==
    /\ [](\A p \in Procs : (lpc[p] = "returned" /\ pending[p] = "raised") =>
                              ret[p] = "false" /\ ~is_leader[p])
    /\ [][\A p \in Procs :
            /\ (lpc[p] = "finally" /\ pending[p] = "raised" /\ lpc'[p] = "returned")
                  => lock' = NoLock /\ ret'[p] = "false"
            /\ (SetStep(p) /\ lock = NoLock)
                  => lpc'[p] = "leader" /\ lock' # NoLock /\ lock'.owner = p]_vars

\* a leader's build raised, load_swagger returned False, and another process
\* acquired the lock before the failed leader's lease would have run out
C9_Witness ==
    \E i \in 1..Len(acqLog) : \E j \in (i + 1)..Len(acqLog) :
        /\ pending[acqLog[i].p] = "raised" /\ lpc[acqLog[i].p] = "returned"
        /\ ret[acqLog[i].p] = "false"
        /\ Released = {acqLog[i].p}
        /\ acqLog[j].at < acqLog[i].at + LOCK_TIMEOUT
        /\ lock # NoLock /\ lock.owner = acqLog[j].p

(***************************************************************************)
(* Claims about the registry snapshot                                      *)
(***************************************************************************)
\* the valid registry states: at least one descriptor, any vectors
ValidStates ==
    {[tools |-> t, embeddings |-> e] : t \in Maps(Descs) \ {EmptyMap}, e \in Maps(Vecs)}

\* C10: for any valid registry state S, a registry that has just loaded the
\* snapshot persisted for S holds descriptor and vector maps equal to S.
C10_RoundTrip ==
    \A r \in Regs : \A S \in ValidStates :
        readDoc[r] = SnapshotDoc(S.tools, S.embeddings)
            => tools_map[r] = S.tools /\ embeddings_map[r] = S.embeddings

\* the registry state a snapshot document holds
StateOf(doc) == [tools |-> JsonLoad(doc.tools), embeddings |-> JsonLoad(doc.embeddings)]
\* registry r has just come back from _load_cache
LoadStep(r) == readDoc'[r] # NoEntry /\ readDoc'[r] # readDoc[r]

\* C11: a load that finds the main file missing, unparsable or structurally
\* invalid and the backup valid leaves the registry with the backup's state
\* and the backup's content in the main file (or, when the copy failed, the
\* main file as it was); a load that finds both unusable returns the
\* no-snapshot result and changes nothing.
C11_Step ==
    \A r \in Regs :
        LoadStep(r) =>
            /\ (~Usable(live) /\ Usable(backup))
                  => /\ readDoc'[r] = backup
                     /\ tools_map'[r] = StateOf(backup).tools
                     /\ embeddings_map'[r] = StateOf(backup).embeddings
                     /\ live' \in {backup, live}
            /\ (~Usable(live) /\ ~Usable(backup))
                  => /\ readDoc'[r] = NoSnapshot
                     /\ UNCHANGED <<tools_map, embeddings_map, live, backup>>

C11_BackupFallback == [][C11_Step]_vars

(***************************************************************************)
(* Claims about semantic search                                            *)
(***************************************************************************)
CatalogOps == {catalog[i].op : i \in 1..Len(catalog)}
VecOf(op) == catalog[CHOOSE i \in 1..Len(catalog) : catalog[i].op = op].vec
ScoreOf(op) == cosine_similarity(query_vec, VecOf(op))
\* the descriptors a search may return: not deny-listed, with a vector, and
\* scoring above the threshold
Eligible == {op \in CatalogOps : ~is_blacklisted(op, "") /\ VecOf(op) # NoVec
                                   /\ Greater(ScoreOf(op), SIMILARITY_THRESHOLD)}
Searched == limit >= 0 /\ is_ready /\ query_vec # NoVec
Returned == {found[i] : i \in 1..Len(found)}

\* C12: a search returns at most top_k descriptors, no descriptor twice, none
\* scoring below the threshold, in descending order of cosine similarity;
\* what it leaves out scores no higher than what it returns, and it returns
\* fewer than top_k only when no further candidate passes the threshold.
\* With vectors [1,0] and [0,1] and the query [0.9,0.1] the first descriptor
\* scores strictly higher and is never listed behind the second.
C12_SearchResult ==
    Searched =>
        /\ Len(found) <= limit
        /\ Cardinality(Returned) = Len(found)
        /\ Returned \subseteq CatalogOps
        /\ \A i \in 1..Len(found) : ~Greater(SIMILARITY_THRESHOLD, ScoreOf(found[i]))
        /\ \A i \in 1..Len(found) : \A j \in (i + 1)..Len(found) :
              ~Greater(ScoreOf(found[j]), ScoreOf(found[i]))
        /\ \A op \in Eligible \ Returned :
              /\ Len(found) = limit
              /\ \A i \in 1..Len(found) : ~Greater(ScoreOf(op), ScoreOf(found[i]))
        /\ (/\ query_vec = <<9, 1>>
            /\ [op |-> "get_vehicle", vec |-> <<10, 0>>] \in {catalog[i] : i \in 1..Len(catalog)}
            /\ [op |-> "get_weather", vec |-> <<0, 10>>] \in {catalog[i] : i \in 1..Len(catalog)})
           => /\ Greater(ScoreOf("get_vehicle"), ScoreOf("get_weather"))
              /\ \A j \in 1..Len(found) : found[j] = "get_weather" =>
                    \E i \in 1..(j - 1) : found[i] = "get_vehicle"
              /\ (limit >= 1 /\ Len(catalog) = 2) => found[1] = "get_vehicle"

\* a search with top_k = 1 over two candidates above the threshold and one
\* below it returned the better of the two
C12_Witness ==
    /\ Searched /\ limit = 1 /\ Len(found) = 1
    /\ Cardinality(Eligible) = 2
    /\ \E op \in Eligible \ Returned : Greater(ScoreOf(found[1]), ScoreOf(op))
    /\ \E op \in CatalogOps \ Eligible :
          /\ ~is_blacklisted(op, "") /\ VecOf(op) # NoVec
          /\ Greater(SIMILARITY_THRESHOLD, ScoreOf(op))

(***************************************************************************)
(* Claims about scheduled retries                                          *)
(***************************************************************************)
ScheduledMembers == {e.m : e \in schedule}
Removers(m) == {w \in Workers : opc[w] = "removed" /\ task[w].m = m}
\* worker w re-enqueues the entry it removed
Promotes(w) == opc[w] = "removed" /\ outbound' = Append(outbound, task[w].m)
\* a send failed and the payload went through schedule_retry
RetryStep == outbound # <<>> /\ outbound' = Tail(outbound)
                /\ (schedule' # schedule \/ dropped' # dropped)

\* C13: no scheduled entry is re-enqueued twice: a poller re-enqueues an
\* entry only after its own ZREM removed it, at most one poller has removed
\* an entry, a poller whose ZREM found the entry gone ends its poll without
\* touching the outbound list, and the poller that removed the entry
\* re-enqueues it, once, as its next step.
C13_Step ==
    /\ outbound' # outbound /\ Len(outbound') > Len(outbound) /\ issued' = issued
          => \E w \in Workers : Promotes(w) /\ opc'[w] = "idle"
                                  /\ promoCount'[task[w].m] = 1
    /\ \A w \in Workers :
          /\ (opc[w] = "picked" /\ opc'[w] = "idle")
                => /\ task[w].m \notin ScheduledMembers
                   /\ <<w, task[w].m>> \in lostRace'
                   /\ outbound' = outbound /\ schedule' = schedule
          /\ (opc[w] = "picked" /\ opc'[w] = "removed")
                => /\ task[w].m \in ScheduledMembers
                   /\ task[w].m \notin {e.m : e \in schedule'}
          /\ (opc[w] = "removed" /\ opc'[w] # "removed") => Promotes(w)

C14_PromotedWhenDue ==
    [][\A w \in Workers :
         Promotes(w) => rtime >= task[w].rt + Backoff(task[w].m.attempts)]_vars

\* C15: schedule_retry raises attempts by one; with the raised value at 5 or
\* more nothing is inserted, otherwise exactly one member is inserted, scored
\* with the caller's clock plus 2^attempts seconds; a message is scheduled at
\* most 4 times, with delays 2, 4, 8, 16, and no member of the set carries
\* more than 4 attempts.
C15_Step ==
    RetryStep =>
        LET payload == Head(outbound)
            attempts == payload.attempts + 1
        IN IF attempts >= 5
           THEN schedule' = schedule /\ schedCount' = schedCount
           ELSE /\ \E w \in Workers : \E e \in schedule' \ schedule :
                      /\ schedule' = schedule \cup {e}
                      /\ e.m = [cid |-> payload.cid, attempts |-> attempts]
                      /\ e.score = LoopTime(w) + Backoff(attempts)
                      /\ e.by = w
                /\ Cardinality(schedule') = Cardinality(schedule) + 1
                /\ schedCount'[payload.cid] = schedCount[payload.cid] + 1
                /\ dropped' = dropped

C15_BoundedSchedule ==
    /\ [](\A e \in schedule :
             /\ e.m.attempts \in 1..4
             /\ e.score - (e.rt + skew[e.by]) = Backoff(e.m.attempts)
             /\ e.score - (e.rt + skew[e.by]) \in {2, 4, 8, 16})
    /\ [](\A c \in Cids : schedCount[c] <= 4)
    /\ [](\A payload \in dropped : payload.attempts = 4)
    /\ [][C15_Step]_vars

\* a message was scheduled four times and its fifth failure was dropped
C15_Witness ==
    \E c \in Cids :
        /\ schedCount[c] = 4
        /\ [cid |-> c, attempts |-> 4] \in dropped
        /\ schedule = {}

(***************************************************************************)
(* Claims about auto-heal                                                  *)
(***************************************************************************)
\* worker w pops an entry; worker w has routed the entry it held
Pops(w) == heal[w].cur = NoEntry /\ heal'[w].cur # NoEntry
Routes(w) == /\ heal[w].cur # NoEntry /\ heal'[w].cur = NoEntry
             /\ wstate'[w] = "running" /\ faults' = faults
\* entries in the dead-letter list, held by a healer, re-queued or permanent
Entries == Len(dlq) + Cardinality({w \in Workers : heal[w].cur # NoEntry})
              + Cardinality(stream) + Len(permanent)

C16_Step ==
    /\ Len(dlq') < Len(dlq) => \E w \in Workers : Pops(w)
    /\ \A w \in Workers :
          /\ Pops(w) => /\ dlq # <<>> /\ heal'[w].cur = Head(dlq) /\ dlq' = Tail(dlq)
                        /\ stream' = stream /\ permanent' = permanent
          /\ Routes(w) =>
                LET entry == heal[w].cur IN
                /\ dlq' = dlq
                /\ IF "original_payload" \in DOMAIN entry
                        /\ entry.original_payload.retry_count \in {"0", "1", "2"}
                   THEN /\ permanent' = permanent
                        /\ Cardinality(stream') = Cardinality(stream) + 1
                        /\ \E e \in stream' \ stream :
                              /\ e.p.message_id = entry.original_payload.message_id
                              /\ e.p.text = entry.original_payload.text
                              /\ int(e.p.retry_count) = int(entry.original_payload.retry_count) + 1
                   ELSE /\ permanent' = Append(permanent, entry)
                        /\ stream' = stream

Same(t, u) == u.w = t.w /\ u.id = t.id /\ u.src = t.src
\* coroutine t takes a step of its own and goes on running
Steps(t) == /\ t \in inflight
            /\ ~\E u \in inflight' : Same(t, u) /\ u.pc = t.pc
            /\ wstate'[t.w] = "running"
At(t, pc) == \E u \in inflight' : Same(t, u) /\ u.pc = pc

C17_Step ==
    /\ \A s \in Senders : rate'[s] >= rate[s] \/ rate'[s] = 0
    /\ \A t \in inflight :
          /\ (Steps(t) /\ t.pc = "start" /\ At(t, "allowed"))
                => /\ rate'[t.p.sender] = rate[t.p.sender] + 1
                   /\ rate'[t.p.sender] <= 20
          /\ (Steps(t) /\ t.pc = "start" /\ t.p.text # "blank" /\ rate[t.p.sender] >= 20)
                => /\ At(t, "pre_ack")
                   /\ rate'[t.p.sender] = rate[t.p.sender] + 1
                   /\ Has(t.id, "limited")'
                   /\ Has(t.id, "ok")' = Has(t.id, "ok")
                   /\ dlq' = dlq /\ stream' = stream
          /\ (Steps(t) /\ t.pc = "pre_ack")
                => At(t, "acked") /\ t.id \notin {x.id : x \in pel'}
                     /\ dlq' = dlq /\ stream' = stream /\ outcomes' = outcomes
          /\ (t \in inflight /\ t.pc = "acked" /\ ~(\E u \in inflight' : Same(t, u))
                /\ wstate'[t.w] = "running")
                => t.id \notin {e.id : e \in stream'} /\ stream' \subseteq stream
                     /\ dlq' = dlq /\ outcomes' = outcomes

C18_StoreNeverRaises ==
    [][\A t \in inflight : (Steps(t) /\ t.pc = "failed") => At(t, "f_stored")]_vars

\* C19: when the Redis call of the rate limit check raises, the entry is
\* treated as within the limit and goes to business processing.
C19_FailsOpen ==
    [][\A t \in inflight :
          (Steps(t) /\ t.pc = "start" /\ t.p.text # "blank" /\ faults' = faults + 1)
             => At(t, "allowed")]_vars

(***************************************************************************)
(* Claims about the gateway                                                *)
(***************************************************************************)
\* how many requests of the current call were answered 401
Count401 == Cardinality({i \in 1..Len(statuses) : statuses[i] = 401})

\* C20: a call answered 401 refreshes the token exactly once and retries;
\* when the retried request is answered 401 too, the call ends with an error
\* result and the token is not refreshed a second time.
C20_SingleRefresh ==
    /\ refreshes <= 1
    /\ Count401 >= 1 => refreshes = 1
    /\ Count401 >= 2 => gpc = "done" /\ result.error

\* C21: of the processes that need a token while the Redis key is empty or
\* was invalidated, at most one fetches from the auth endpoint; the others
\* reuse the token it cached.
C21_SingleFetcher == Cardinality(fetchers) <= 1

Last(seq) == seq[Len(seq)]

\* a remote 4xx other than 401
Remote4xx == {a \in Answers : a >= 400 /\ a < 500 /\ a # 401}

C22_Step ==
    (gpc = "request" /\ statuses' # statuses /\ Last(statuses') \in Remote4xx)
        => /\ gpc' = "done"
           /\ result' = [error |-> TRUE, status |-> Last(statuses')]

\* C22: every execute_tool call ends with a value.  A request answered 4xx
\* other than 401 ends the call at once with an error result carrying that
\* status; a call whose last attempt fails without an answer has used all
\* its attempts and ends with an error result; a call that cannot obtain a
\* token ends with an error result without any request.
C22_ErrorsAreValues ==
    /\ [](gpc = "request" => attempt <= max_retries /\ Len(statuses) = attempt)
    /\ []((gpc = "done" /\ statuses = <<>>) => result.error /\ calls > 0)
    /\ []((gpc = "done" /\ statuses # <<>>) =>
            /\ Last(statuses) = 0
                  => result.error /\ Len(statuses) = max_retries + 1
            /\ Last(statuses) >= 400
                  => result = [error |-> TRUE, status |-> Last(statuses)]
            /\ Last(statuses) \in 1..399 => ~result.error
            /\ \A i \in 1..(Len(statuses) - 1) : statuses[i] \in {0, 401})
    /\ [][C22_Step]_vars

\* a second call was answered 403 and ended after that single request
C22_Witness ==
    /\ calls = MaxCalls /\ gpc = "done"
    /\ statuses = <<403>>
    /\ result = [error |-> TRUE, status |-> 403]

Waiting(p) == lpc[p] \in {"follower", "polling"}

C23_Step ==
    \A p \in Waiters :
       \* a snapshot that loads ends the wait before the first poll
       /\ (lpc[p] = "follower" /\ cache /\ lpc'[p] # "killed" /\ lpc'[p] # "follower")
             => lpc'[p] = "returned" /\ ret'[p] = "true" /\ polls'[p] = 0
       \* ready out of the loop: the key was seen absent and the snapshot loaded
       /\ (lpc[p] = "polling" /\ lpc'[p] = "returned" /\ ret'[p] = "true")
             => lock = NoLock /\ cache /\ polls[p] < FOLLOWER_POLLS
       \* not ready: only with the budget used up
       /\ (Waiting(p) /\ lpc'[p] = "returned" /\ ret'[p] = "false")
             => polls[p] = FOLLOWER_POLLS
       \* a poll that finds the key gone and a snapshot does not go on polling
       /\ polls'[p] # polls[p]
             => polls'[p] = polls[p] + 1 /\ ~(lock = NoLock /\ cache)

\* C23: a follower returns ready at once when a snapshot loads; otherwise it
\* makes at most 120 passes of the poll loop, returns ready in the pass that
\* finds the lock released and a snapshot to load, and returns not-ready
\* after the 120th pass; a follower that is not killed always returns.
C23_FollowerTerminates ==
    /\ [](\A p \in Waiters : polls[p] <= FOLLOWER_POLLS)
    /\ [][C23_Step]_vars
    /\ \A p \in Waiters : Waiting(p) ~> (lpc[p] \in {"returned", "killed"})

\* a follower used up its 120 passes and returned not-ready
C23_Witness ==
    \E p \in Waiters :
        lpc[p] = "returned" /\ ret[p] = "false" /\ polls[p] = FOLLOWER_POLLS
          /\ ~is_leader[p] /\ \A i \in 1..Len(acqLog) : acqLog[i].p # p

\* C24: a descriptor stored under an operationId during an ingestion is not
\* replaced by a later operation of the same ingestion with that
\* operationId; the collision ends the build with an error.
C24_UniqueOperationId ==
    \A k \in DOMAIN stored_first : built[k] = stored_first[k]

\* C25: an operation that has had a vector in a process (loaded from the
\* snapshot or computed in an earlier cycle) is not sent to the embedding
\* backend again.
C25_NoReembedding == again = {}

\* C26: consecutive_errors is the number of failed passes in a row (0 after
\* a successful pass); the worker leaves the loop by its controlled exit
\* when that number reaches 5, and is never found looping with 5 or more
\* failed passes in a row.
C26_PanicThreshold ==
    /\ mpc = "running" => consecutive_errors = failed_run /\ failed_run < panic_threshold
    /\ mpc = "exited" => consecutive_errors = panic_threshold
    /\ mpc # "crashed"

\* a step of registry r inside _write_cache_atomic
WriteStep(r) == spc[r] \in {"tmp", "backed"} /\ spc'[r] # spc[r]

\* C27: _save_cache_atomic of a registry whose descriptor map or vector map
\* is empty writes nothing: no write begins, and no step of a write changes
\* the live snapshot or the backup.
C27_EmptyNotPersisted ==
    [][\A r \in Regs :
          (tools_map[r] = EmptyMap \/ embeddings_map[r] = EmptyMap)
             => /\ ~(spc[r] = "idle" /\ spc'[r] = "tmp")
                /\ WriteStep(r) => live' = live /\ backup' = backup]_vars

\* a complete snapshot: absent, or a whole document
Complete(file) == file = Missing \/ Usable(file)

C28_Step ==
    \A r \in Regs :
        (bpc[r] \in {"save", "saving"} /\ (bpc'[r] # bpc[r] \/ spc'[r] # spc[r]))
           => \/ live' = live
              \/ /\ live' = SnapshotDoc(tools_map[r], embeddings_map[r])
                 /\ spc[r] = "backed" /\ bpc'[r] = "release"

FullyEmbedded(doc) ==
    \A k \in DOMAIN JsonLoad(doc.tools) : k \in DOMAIN JsonLoad(doc.embeddings)

\* C29: the leader releases the lock only after the snapshot with the
\* vectors of all its descriptors has been persisted, and a follower that
\* finds the lock released loads a snapshot in which every descriptor has a
\* vector.
C29_VectorsBeforeRelease ==
    [][\A r \in Regs :
          /\ (holder = r /\ holder' = "none" /\ bpc[r] = "release" /\ Usable(live))
                => FullyEmbedded(live)
          /\ (bpc[r] = "wait" /\ holder = "none" /\ bpc'[r] = "embed"
                 /\ readDoc'[r] # NoSnapshot /\ readDoc'[r] # NoEntry)
                => FullyEmbedded(readDoc'[r])]_vars

\* C30: a search made while a cycle of its process is under way can return
\* what it could return just before the cycle started.
C30_SearchSeesLastSnapshot ==
    \A r \in Regs : last_search[r] # NoSearch => last_search[r] = before[r]

(***************************************************************************)
(* Claims about the deny-list                                              *)
(***************************************************************************)
Denied(e) == is_blacklisted(e.op, e.path)

\* C31: no descriptor that matches the deny-list by its operation id or by
\* its path is held by the registry or returned by a search, whether it
\* came from ingestion or from a loaded snapshot.
C31_DenyListNotServed ==
    /\ \A i \in 1..Len(catalog) : ~Denied(catalog[i])
    /\ \A j \in 1..Len(found) : \A i \in PositionOf(found[j]) : ~Denied(catalog[i])

\* C32: a descriptor that a search returns has the vector computed from its
\* present content: after re-ingestion changed the content under the same
\* operation id, the old vector is not the one searched.
C32_FreshVectorServed ==
    \A j \in 1..Len(found) : \A i \in PositionOf(found[j]) :
        catalog[i].vec = get_embedding(catalog[i].text)

(***************************************************************************)
(* Claims about the embedding run                                          *)
(***************************************************************************)
\* C33: during a run of generate_embeddings, and after a crash in it, the
\* persisted snapshot holds at least the vectors computed up to the last
\* full 20.
C33_CheckpointEvery20 ==
    epc \in {"loop", "crashed"} =>
        persisted >= CHECKPOINT_EVERY * (generated \div CHECKPOINT_EVERY)

\* C34: the snapshot a leader build installs holds exactly the descriptors
\* of the document that build fetched; a descriptor of the previous
\* snapshot that the source no longer yields is not carried over.
C34_Superseded ==
    [][\A r \in Regs :
          (bpc[r] = "saving" /\ bpc'[r] = "release" /\ live' # live)
             => DOMAIN JsonLoad(live'.tools) = produced[r]]_vars

(***************************************************************************)
(* Claims about the requests of one gateway call                           *)
(***************************************************************************)
\* a pass of the loop either returns or moves to the next attempt
C35_Step == Len(statuses') = Len(statuses) + 1 =>
               gpc' = "done" \/ attempt' = attempt + 1

\* C35: one gateway call sends at most 3 requests to the remote API, the
\* first and at most two retries, whatever mix of timeouts, network errors
\* and 401 answers it meets, and every pass of its loop returns or uses up
\* one of the attempts.
C35_AtMostThreeRequests ==
    /\ [](/\ Len(statuses) <= max_retries + 1
          /\ gpc = "request" => (attempt = Len(statuses) /\ attempt <= max_retries)
          /\ gpc = "done" => Len(statuses) <= attempt + 1)
    /\ [][C35_Step]_vars

\* a call met a timeout, a 401 and a timeout again, and returned an error
\* after its third request
C35_Witness ==
    /\ gpc = "done" /\ statuses = <<0, 401, 0>>
    /\ result.error /\ refreshes = 1

\* C36: after repeated failures of the remote API in a row the breaker is
\* open and the next call is answered without a request, as long as no
\* time has passed; the threshold can be any number of failures up to the
\* calls made before the last one.
C36_BreakerOpens == streak >= MaxCalls - 1 => gpc # "request"

(***************************************************************************)
(* Claims about dead-letter entries of one stream entry                    *)
(***************************************************************************)
\* the dead-letter entries written for the message a stream entry carries;
\* without auto_heal_dlq a message has one stream entry
DeadLettersOf(m) == {i \in 1..Len(dlq) : dlq[i].original_payload.message_id = m}

\* C37: at most one dead-letter entry is written for one inbound stream
\* entry, also when a second worker claims the entry after the idle
\* threshold while its owner is still processing it.
C37_OneDeadLetter == \A m \in 1..MaxMsgs : Cardinality(DeadLettersOf(m)) <= 1

(***************************************************************************)
(* Claims about the restore of the backup                                  *)
(***************************************************************************)
\* C38: a loader that fell back to the backup does not put it over a main
\* file that has meanwhile become a complete snapshot: its restore leaves
\* such a main file as it is.
C38_RestoreKeepsNewer ==
    [][\A r \in Regs :
          (spc[r] = "restore" /\ spc'[r] = "idle" /\ Usable(live)) => live' = live]_vars

(***************************************************************************)
(* Claims about delivery from the inbound stream                           *)
(***************************************************************************)
\* entries the group has handed to a consumer: pending, or acknowledged since
DeliveredIds == {x.id : x \in pel} \cup ackLog

\* C39: every entry appended to the inbound stream is eventually delivered to
\* a worker of the group, whether it was appended before or after the first
\* worker created the group.
C39_EventuallyDelivered ==
    \A i \in 1..MaxIds : (i \in StreamIds) ~> (i \in DeliveredIds)

(***************************************************************************)
(* Claims about the records taken from the outbound list                   *)
(***************************************************************************)
\* C40: every record a worker removes from the outbound list is accounted
\* for by the step that removes it: it was sent, or its send failed and it
\* is in the scheduled-retry set with attempts one higher, or its attempts
\* would reach 5 and it was dropped.  A failed send of a record with
\* attempts below 4 leaves the record in the scheduled-retry set.
C40_Step ==
    (outbound # <<>> /\ outbound' = Tail(outbound)) =>
        LET rec == Head(outbound) IN
        \/ sentLog' = sentLog \cup {rec} /\ rec \notin sentLog
        \/ /\ rec.attempts + 1 < 5
           /\ \E e \in schedule' : e.m = [rec EXCEPT !.attempts = rec.attempts + 1]
           /\ schedule' # schedule
        \/ /\ rec.attempts + 1 >= 5
           /\ rec \in dropped' /\ rec \notin dropped

C40_Accounted == [][C40_Step]_vars

====
